---- MODULE Spec2Model ----
(***************************************************************************)
(* Model of the viewport-driven tile loader of landshake:                  *)
(* src/src/hooks/useTileBasedParcels.js (the useTileBasedParcels hook),    *)
(* with the move handler of src/src/App.jsx that drives it and the list of *)
(* src/src/services/errorTracker.js.                                       *)
(*                                                                         *)
(* JavaScript runs the hook on one thread.  A step of the model is one     *)
(* run-to-completion piece of code: an event handler up to its first       *)
(* await, or the continuation of an await.  Continuations of settled       *)
(* promises are microtasks: they run before the next event (a call of the  *)
(* hook's functions, a network completion) is handled.                     *)
(***************************************************************************)
EXTENDS Integers, Sequences, FiniteSets, TLC

(***************************************************************************)
(* Bounds of the model.                                                    *)
(***************************************************************************)
\* updateVisibleTiles invocations that wait for their loads at the same time
MaxActive == 2
\* direct loadTile calls in one behaviour (specification SpecLoadTile)
MaxDirect == 3
\* updateVisibleTiles invocations that wait at the same time in the
\* behaviours of specification SpecParcels
MaxParcelsActive == 1

\* A nullable JavaScript value: <<>> is null/undefined, <<v>> is the value v
Null == <<>>

Some(v) == <<v>>

(***************************************************************************)
(* Strings are sequences of one-character strings, so that the template    *)
(* literal `${col}_${row}` and tileId.split("_").map(Number) are modelled  *)
(* by what they do.                                                        *)
(***************************************************************************)
Digits == <<"0", "1", "2", "3", "4", "5", "6", "7", "8", "9">>

RECURSIVE NatToString(_)
NatToString(n) ==
    IF n < 10 THEN <<Digits[n + 1]>>
    ELSE NatToString(n \div 10) \o <<Digits[(n % 10) + 1]>>

\* String(n) for an integer n, as a template literal formats it
NumberToString(n) == IF n < 0 THEN <<"-">> \o NatToString(-n) ELSE NatToString(n)

\* `${col}_${row}`
TileIdOf(col, row) == NumberToString(col) \o <<"_">> \o NumberToString(row)

\* s.split(sep) for a one-character separator
RECURSIVE SplitFrom(_, _, _, _)
SplitFrom(s, sep, k, cur) ==
    IF k > Len(s) THEN <<cur>>
    ELSE IF s[k] = sep THEN <<cur>> \o SplitFrom(s, sep, k + 1, <<>>)
    ELSE SplitFrom(s, sep, k + 1, Append(cur, s[k]))

Split(s, sep) == SplitFrom(s, sep, 1, <<>>)

\* Number(s) yields Some(n), or NaN
NaN == <<>>

DigitValue(c) == CHOOSE d \in 0..9 : Digits[d + 1] = c

IsDigit(c) == \E d \in 0..9 : Digits[d + 1] = c

RECURSIVE DigitsToNat(_, _)
DigitsToNat(s, acc) ==
    IF s = <<>> THEN acc
    ELSE DigitsToNat(Tail(s), acc * 10 + DigitValue(Head(s)))

\* Number(s) for the strings a split of a tile identifier produces:
\* "" is 0, an optionally signed run of digits is its value, the rest is NaN
Number(s) ==
    IF s = <<>> THEN Some(0)
    ELSE IF Head(s) = "-" /\ Len(s) > 1 /\ \A k \in 2..Len(s) : IsDigit(s[k])
         THEN Some(0 - DigitsToNat(Tail(s), 0))
    ELSE IF \A k \in 1..Len(s) : IsDigit(s[k]) THEN Some(DigitsToNat(s, 0))
    ELSE NaN

(***************************************************************************)
(* The resources the server holds: the manifest /data/tiles.json and one   *)
(* FeatureCollection per tile file.  Coordinates are integers.  The grid   *)
(* is sparse: cell (0,1) has no tile.                                      *)
(***************************************************************************)
Box(minLng, maxLng, minLat, maxLat) ==
    [minLng |-> minLng, maxLng |-> maxLng, minLat |-> minLat, maxLat |-> maxLat]

TileDescriptor(col, row, box) ==
    [col |-> col, row |-> row, file |-> <<"tile_">> \o TileIdOf(col, row),
     bounds |-> box, featureCount |-> 1]

ServerManifest ==
    [bounds |-> Box(0, 20, 0, 20),
     grid |-> [cols |-> 2, rows |-> 2],
     tiles |-> << TileDescriptor(0, 0, Box(0, 10, 0, 10)),
                  TileDescriptor(1, 0, Box(10, 20, 0, 10)),
                  TileDescriptor(1, 1, Box(10, 20, 10, 20)) >>]

Feature(parcel, lng, lat) ==
    [type |-> "Feature",
     properties |-> [parcelId |-> parcel],
     geometry |-> [type |-> "Polygon",
                   coordinates |-> << << <<lng, lat>>, <<lng + 1, lat>>,
                                         <<lng + 1, lat + 1>>, <<lng, lat>> >> >>]]

FeatureCollection(features) == [type |-> "FeatureCollection", features |-> features]

\* a parcel made of two polygons, the second one 4 to the north-east
MultiFeature(parcel, lng, lat) ==
    [type |-> "Feature",
     properties |-> [parcelId |-> parcel],
     geometry |-> [type |-> "MultiPolygon",
                   coordinates |-> << << << <<lng, lat>>, <<lng + 1, lat>>,
                                            <<lng + 1, lat + 1>>, <<lng, lat>> >> >>,
                                      << << <<lng + 4, lat + 4>>, <<lng + 5, lat + 4>>,
                                            <<lng + 5, lat + 5>>, <<lng + 4, lat + 4>> >> >> >>]]

\* a record of the dataset that has no geometry
NoGeometry(parcel) == [type |-> "Feature", properties |-> [parcelId |-> parcel]]

\* The bodies the server may send for a tile file.  Parcel 6 touches the line
\* between tiles 1_0 and 1_1 and is in the files of both.
ServerBodies(file) ==
    IF file = <<"tile_">> \o TileIdOf(0, 0)
      THEN { FeatureCollection(<<Feature(1, 2, 2), NoGeometry(5), Feature(2, 6, 6)>>) }
    ELSE IF file = <<"tile_">> \o TileIdOf(1, 0)
      THEN { FeatureCollection(<<Feature(3, 12, 3), Feature(6, 14, 9)>>) }
    ELSE { FeatureCollection(<<Feature(6, 14, 9), MultiFeature(4, 13, 13)>>) }

\* The tile files whose request may fail (network error, non-success status or
\* a body that does not parse); the file of tile 1_1 is always served.
FailingFiles == { <<"tile_">> \o TileIdOf(0, 0), <<"tile_">> \o TileIdOf(1, 0) }

\* The viewports the map reports: inside tile 0_0, across tiles 1_0 and 1_1,
\* and outside the dataset.
Viewports == { Box(1, 4, 1, 4), Box(12, 14, 2, 14), Box(30, 40, 30, 40) }

\* The identifiers a direct caller of loadTile asks for: two tiles of the
\* manifest and the cell the grid leaves out.
DirectIds == { TileIdOf(0, 0), TileIdOf(1, 0), TileIdOf(0, 1) }

(***************************************************************************)
(* JavaScript Map values are functions; the keys are the domain.           *)
(***************************************************************************)
EmptyMap == [k \in {} |-> Null]

MapHas(m, k) == k \in DOMAIN m

MapSet(m, k, v) == [x \in (DOMAIN m) \cup {k} |-> IF x = k THEN v ELSE m[x]]

MapDelete(m, k) == [x \in (DOMAIN m) \ {k} |-> m[x]]

RECURSIVE SeqToSet(_)
SeqToSet(s) == IF s = <<>> THEN {} ELSE {Head(s)} \cup SeqToSet(Tail(s))


(***************************************************************************)
(* State of the hook (lines 7-15), the network and the callers.            *)
(***************************************************************************)
VARIABLES
    visibleTiles,        \* useState: the published visible-tile set
    tileCache,           \* useState: copy of the cache handed to consumers
    tilesManifest,       \* useState: Null or Some(manifest)
    loading,             \* useState
    error,               \* useState: Null or Some(message)
    manifestLoadedRef,   \* useRef: the "load attempted" flag
    tileCacheRef,        \* useRef: Map tileId -> tile data
    visibleTilesRef,     \* useRef: Set of tileId
    inflightLoadsRef,    \* useRef: Map tileId -> promise (its key in promises)
    manifestFetch,       \* the manifest request: "none", "pending", "done"
    manifestFetches,     \* number of manifest requests issued
    promises,            \* the loadPromises that are pending or still referenced
    inv,                 \* the updateVisibleTiles invocations waiting at line 135,
                         \* in call order
    direct,              \* every direct loadTile call, in call order
    failedTiles,         \* the tiles whose latest load failed
    errors,              \* services/errorTracker.js line 6: the tracker's list,
                         \* newest entry first; followed under SpecErrors, the
                         \* specifications of the hook leave the tracker out
    last                 \* what the last step did

vars == << visibleTiles, tileCache, tilesManifest, loading, error,
           manifestLoadedRef, tileCacheRef, visibleTilesRef, inflightLoadsRef,
           manifestFetch, manifestFetches, promises, inv, direct, failedTiles,
           errors, last >>

manifestState == << tilesManifest, error, manifestLoadedRef, manifestFetch,
                    manifestFetches >>

\* the record of a step of the tile system: its operation and, for a step of
\* updateVisibleTiles, the invocation
Step(op, call) == [op |-> op, call |-> call]

Init ==
    /\ visibleTiles = {}
    /\ tileCache = EmptyMap
    /\ tilesManifest = Null
    /\ loading = FALSE
    /\ error = Null
    /\ manifestLoadedRef = FALSE
    /\ tileCacheRef = EmptyMap
    /\ visibleTilesRef = {}
    /\ inflightLoadsRef = EmptyMap
    /\ manifestFetch = "none"
    /\ manifestFetches = 0
    /\ promises = EmptyMap
    /\ inv = <<>>
    /\ direct = <<>>
    /\ failedTiles = {}
    /\ errors = <<>>
    /\ last = Step("init", Null)

(***************************************************************************)
(* Promises.  A loadPromise is pending until its fetch ends; the two       *)
(* awaits of the fetch (the response, then its body) change no state of    *)
(* the hook in between and are one step here.  A promise is named by its   *)
(* tile and a number that tells the promises of one tile apart.            *)
(***************************************************************************)
PromiseKey(tileId, n) == [tileId |-> tileId, n |-> n]

IsPending(p) == promises[p].state = "pending"

IsRejected(p) == promises[p].state = "rejected"

\* the fetches on the network for tileId
Outstanding(tileId) == { p \in DOMAIN promises : p.tileId = tileId /\ IsPending(p) }

\* what loadTile returned: a value at once, or a promise
Immediate(v) == [promise |-> Null, value |-> v]

Pending(p) == [promise |-> Some(p), value |-> Null]

RetSettled(ret) == ret.promise = Null \/ ~IsPending(ret.promise[1])

RetRejected(ret) == ret.promise # Null /\ IsRejected(ret.promise[1])

RetValue(ret) == IF ret.promise = Null THEN ret.value ELSE promises[ret.promise[1]].value

\* the promises a list of loadTile results holds
RetPromises(rets) ==
    { rets[a].promise[1] : a \in { b \in 1..Len(rets) : rets[b].promise # Null } }

\* the promises some invocation, caller or registry entry still holds
Referenced(invs, directs, inflight) ==
    UNION { RetPromises(invs[k].awaited) : k \in 1..Len(invs) }
    \cup RetPromises([j \in 1..Len(directs) |-> directs[j].ret])
    \cup { inflight[t] : t \in DOMAIN inflight }

\* a settled promise nothing refers to is forgotten
Collect(ps, invs, directs, inflight) ==
    [p \in { q \in DOMAIN ps : ps[q].state = "pending"
                               \/ q \in Referenced(invs, directs, inflight) } |-> ps[p]]

(***************************************************************************)
(* Viewport intersection engine (lines 36-74).                             *)
(***************************************************************************)
\* a test with strict sides turned into closed ones: boxes that only touch
\* do not intersect
IntersectsStrict(bounds, tile) ==
    ~ ( \/ bounds.maxLng <= tile.bounds.minLng
        \/ bounds.minLng >= tile.bounds.maxLng
        \/ bounds.maxLat <= tile.bounds.minLat
        \/ bounds.minLat >= tile.bounds.maxLat )

\* a test that compares the latitudes only
IntersectsLatOnly(bounds, tile) ==
    ~ ( \/ bounds.maxLat < tile.bounds.minLat
        \/ bounds.minLat > tile.bounds.maxLat )

\* a test that is closed on the sides but leaves out a tile that shares only
\* a corner with the viewport
IntersectsNoCorner(bounds, tile) ==
    /\ ~ ( \/ bounds.maxLng < tile.bounds.minLng
           \/ bounds.minLng > tile.bounds.maxLng
           \/ bounds.maxLat < tile.bounds.minLat
           \/ bounds.minLat > tile.bounds.maxLat )
    /\ ~ ( /\ (bounds.maxLng = tile.bounds.minLng \/ bounds.minLng = tile.bounds.maxLng)
           /\ (bounds.maxLat = tile.bounds.minLat \/ bounds.minLat = tile.bounds.maxLat)
           /\ bounds.minLng < bounds.maxLng
           /\ bounds.minLat < bounds.maxLat )

Intersects(bounds, tile) ==
    ~ ( \/ bounds.maxLng < tile.bounds.minLng
        \/ bounds.minLng > tile.bounds.maxLng
        \/ bounds.maxLat < tile.bounds.minLat
        \/ bounds.minLat > tile.bounds.maxLat )

\* a loop that pushes the identifier of an intersecting tile twice
RECURSIVE IntersectingTilesTwice(_, _)
IntersectingTilesTwice(tiles, bounds) ==
    IF tiles = <<>> THEN <<>>
    ELSE (IF Intersects(bounds, Head(tiles))
            THEN <<TileIdOf(Head(tiles).col, Head(tiles).row),
                   TileIdOf(Head(tiles).col, Head(tiles).row)>>
            ELSE <<>>) \o IntersectingTilesTwice(Tail(tiles), bounds)

RECURSIVE IntersectingTiles(_, _)
IntersectingTiles(tiles, bounds) ==
    IF tiles = <<>> THEN <<>>
    ELSE (IF Intersects(bounds, Head(tiles))
            THEN <<TileIdOf(Head(tiles).col, Head(tiles).row)>>
            ELSE <<>>) \o IntersectingTiles(Tail(tiles), bounds)

GetTilesForViewport(bounds) ==
    IF tilesManifest = Null THEN <<>>
    ELSE IntersectingTiles(tilesManifest[1].tiles, bounds)

\* tilesManifest?.tiles?.some((t) => t.col === c && t.row === r)
TileExists(c, r) ==
    /\ tilesManifest # Null
    /\ \E k \in 1..Len(tilesManifest[1].tiles) :
          tilesManifest[1].tiles[k].col = c /\ tilesManifest[1].tiles[k].row = r

\* the cells the two nested loops visit, in the loops' order
LoopCells(col, row) ==
    [k \in 1..9 |-> <<col - 1 + ((k - 1) \div 3), row - 1 + ((k - 1) % 3)>>]

\* loops without the test that skips the centre cell
RECURSIVE SurroundingOfWithCentre(_, _, _)
SurroundingOfWithCentre(cells, col, row) ==
    IF cells = <<>> THEN <<>>
    ELSE (IF TileExists(Head(cells)[1], Head(cells)[2])
            THEN <<TileIdOf(Head(cells)[1], Head(cells)[2])>>
            ELSE <<>>) \o SurroundingOfWithCentre(Tail(cells), col, row)

RECURSIVE SurroundingOf(_, _, _)
SurroundingOf(cells, col, row) ==
    IF cells = <<>> THEN <<>>
    ELSE (IF Head(cells) = <<col, row>> THEN <<>>
          ELSE IF TileExists(Head(cells)[1], Head(cells)[2])
            THEN <<TileIdOf(Head(cells)[1], Head(cells)[2])>>
            ELSE <<>>) \o SurroundingOf(Tail(cells), col, row)

\* col and row are Number() results; with a NaN the loops run no iteration
GetSurroundingTiles(col, row) ==
    IF col = NaN \/ row = NaN THEN <<>>
    ELSE SurroundingOf(LoopCells(col[1], row[1]), col[1], row[1])

\* const [col, row] = tileId.split("_").map(Number)
ParseTileId(tileId) ==
    LET parts == Split(tileId, "_") IN
    << Number(parts[1]), IF Len(parts) >= 2 THEN Number(parts[2]) ELSE NaN >>

\* new Set(): append the elements of s that acc does not hold yet
RECURSIVE AddAll(_, _)
AddAll(acc, s) ==
    IF s = <<>> THEN acc
    ELSE AddAll(IF \E k \in 1..Len(acc) : acc[k] = Head(s) THEN acc
                ELSE Append(acc, Head(s)), Tail(s))

\* lines 144-149: the neighbours of all visible tiles, in insertion order
RECURSIVE SurroundingTileIds(_, _)
SurroundingTileIds(visibleTileIds, acc) ==
    IF visibleTileIds = <<>> THEN acc
    ELSE LET cr == ParseTileId(Head(visibleTileIds)) IN
         SurroundingTileIds(Tail(visibleTileIds),
                            AddAll(acc, GetSurroundingTiles(cr[1], cr[2])))

(***************************************************************************)
(* loadTile (lines 76-111), up to its return.  st holds the promises and   *)
(* the inflight registry as the calls made so far in this step left them.  *)
(***************************************************************************)
\* tilesManifest?.tiles.find((t) => `${t.col}_${t.row}` === tileId)
FindTile(tileId) ==
    IF tilesManifest = Null THEN Null
    ELSE LET tiles == tilesManifest[1].tiles
             hits == { k \in 1..Len(tiles) : TileIdOf(tiles[k].col, tiles[k].row) = tileId }
         IN IF hits = {} THEN Null
            ELSE Some(tiles[CHOOSE k \in hits : \A j \in hits : k <= j])

\* a name for a new promise of tileId
NewPromise(ps, tileId) ==
    LET free == { n \in 1..(Cardinality(DOMAIN ps) + 1) :
                    PromiseKey(tileId, n) \notin DOMAIN ps }
    IN PromiseKey(tileId, CHOOSE n \in free : \A m \in free : n <= m)

\* loadTile without the inflight check of lines 82-84
LoadTileNoDedup(st, tileId) ==
    IF MapHas(tileCacheRef, tileId)
      THEN [promises |-> st.promises, inflight |-> st.inflight,
            ret |-> Immediate(Some(tileCacheRef[tileId]))]
    ELSE LET tile == FindTile(tileId) IN
      IF tile = Null
        THEN [promises |-> st.promises, inflight |-> st.inflight,
              ret |-> Immediate(Null)]
      ELSE LET p == NewPromise(st.promises, tileId) IN
           [promises |-> MapSet(st.promises, p,
                                [file |-> tile[1].file, state |-> "pending",
                                 value |-> Null]),
            inflight |-> MapSet(st.inflight, tileId, p),
            ret |-> Pending(p)]

\* loadTile without the cache check of lines 78-80
LoadTileNoCacheCheck(st, tileId) ==
    IF MapHas(st.inflight, tileId)
      THEN [promises |-> st.promises, inflight |-> st.inflight,
            ret |-> Pending(st.inflight[tileId])]
    ELSE LET tile == FindTile(tileId) IN
      IF tile = Null
        THEN [promises |-> st.promises, inflight |-> st.inflight,
              ret |-> Immediate(Null)]
      ELSE LET p == NewPromise(st.promises, tileId) IN
           [promises |-> MapSet(st.promises, p,
                                [file |-> tile[1].file, state |-> "pending",
                                 value |-> Null]),
            inflight |-> MapSet(st.inflight, tileId, p),
            ret |-> Pending(p)]

\* loadTile that derives the file from the identifier instead of looking the
\* descriptor up (no lines 86-89)
LoadTileNoManifest(st, tileId) ==
    IF MapHas(tileCacheRef, tileId)
      THEN [promises |-> st.promises, inflight |-> st.inflight,
            ret |-> Immediate(Some(tileCacheRef[tileId]))]
    ELSE IF MapHas(st.inflight, tileId)
      THEN [promises |-> st.promises, inflight |-> st.inflight,
            ret |-> Pending(st.inflight[tileId])]
    ELSE LET p == NewPromise(st.promises, tileId) IN
           [promises |-> MapSet(st.promises, p,
                                [file |-> <<"tile_">> \o tileId, state |-> "pending",
                                 value |-> Null]),
            inflight |-> MapSet(st.inflight, tileId, p),
            ret |-> Pending(p)]

LoadTile(st, tileId) ==
    IF MapHas(tileCacheRef, tileId)
      THEN [promises |-> st.promises, inflight |-> st.inflight,
            ret |-> Immediate(Some(tileCacheRef[tileId]))]
    ELSE IF MapHas(st.inflight, tileId)
      THEN [promises |-> st.promises, inflight |-> st.inflight,
            ret |-> Pending(st.inflight[tileId])]
    ELSE LET tile == FindTile(tileId) IN
      IF tile = Null
        THEN [promises |-> st.promises, inflight |-> st.inflight,
              ret |-> Immediate(Null)]
      ELSE LET p == NewPromise(st.promises, tileId) IN
           [promises |-> MapSet(st.promises, p,
                                [file |-> tile[1].file, state |-> "pending",
                                 value |-> Null]),
            inflight |-> MapSet(st.inflight, tileId, p),
            ret |-> Pending(p)]

\* tileIds.map((tileId) => loadTile(tileId)): the calls in order
RECURSIVE LoadAll(_, _, _)
LoadAll(st, tileIds, rets) ==
    IF tileIds = <<>>
      THEN [promises |-> st.promises, inflight |-> st.inflight, rets |-> rets]
    ELSE LET r == LoadTile(st, Head(tileIds)) IN
         LoadAll([promises |-> r.promises, inflight |-> r.inflight],
                 Tail(tileIds), Append(rets, r.ret))

LoadState == [promises |-> promises, inflight |-> inflightLoadsRef]

(***************************************************************************)
(* Microtasks: an invocation whose await of Promise.all can continue does  *)
(* so before any other event is handled; invocations that became ready by  *)
(* the same completion continue in call order.                             *)
(***************************************************************************)
\* Promise.all rejects as soon as one promise rejects
AwaitRejected(k) == \E a \in 1..Len(inv[k].awaited) : RetRejected(inv[k].awaited[a])

\* a Promise.all that is not awaited
AwaitNothing(k) == TRUE

\* Promise.all fulfils once every promise has
AwaitFulfilled(k) == \A a \in 1..Len(inv[k].awaited) : RetSettled(inv[k].awaited[a])

ReadyToResume(k) == AwaitRejected(k) \/ AwaitFulfilled(k)

MicrotaskPending == \E k \in 1..Len(inv) : ReadyToResume(k)

(***************************************************************************)
(* Manifest loader (lines 17-34).                                          *)
(***************************************************************************)
\* err.message of a failed manifest load
ManifestErrors == { "Failed to load manifest: 404", "Failed to fetch" }

\* the effect without the "load attempted" flag of lines 18-19
MountEffectNoFlag ==
    /\ ~MicrotaskPending
    /\ manifestLoadedRef' = TRUE
    /\ manifestFetch' = "pending"
    /\ manifestFetches' = manifestFetches + 1
    /\ UNCHANGED <<tilesManifest, error>>
    /\ UNCHANGED <<visibleTiles, tileCache, loading, tileCacheRef, visibleTilesRef,
                   inflightLoadsRef, promises, inv, direct, failedTiles, last>>
    /\ UNCHANGED errors

\* the effect runs (again, when the surrounding UI re-mounts)
MountEffect ==
    /\ ~MicrotaskPending
    /\ IF manifestLoadedRef
         THEN UNCHANGED <<manifestLoadedRef, manifestFetch, manifestFetches>>
         ELSE /\ manifestLoadedRef' = TRUE
              /\ manifestFetch' = "pending"
              /\ manifestFetches' = manifestFetches + 1
    /\ UNCHANGED <<tilesManifest, error>>
    /\ UNCHANGED <<visibleTiles, tileCache, loading, tileCacheRef, visibleTilesRef,
                   inflightLoadsRef, promises, inv, direct, failedTiles, last>>
    /\ UNCHANGED errors

ManifestLoaded ==
    /\ ~MicrotaskPending
    /\ manifestFetch = "pending"
    /\ manifestFetch' = "done"
    /\ tilesManifest' = Some(ServerManifest)
    /\ UNCHANGED <<error, manifestLoadedRef, manifestFetches>>
    /\ UNCHANGED <<visibleTiles, tileCache, loading, tileCacheRef, visibleTilesRef,
                   inflightLoadsRef, promises, inv, direct, failedTiles, last>>
    /\ UNCHANGED errors

ManifestFailed ==
    /\ ~MicrotaskPending
    /\ manifestFetch = "pending"
    /\ manifestFetch' = "done"
    /\ \E message \in ManifestErrors : error' = Some(message)
    /\ UNCHANGED <<tilesManifest, manifestLoadedRef, manifestFetches>>
    /\ UNCHANGED <<visibleTiles, tileCache, loading, tileCacheRef, visibleTilesRef,
                   inflightLoadsRef, promises, inv, direct, failedTiles, last>>
    /\ UNCHANGED errors

(***************************************************************************)
(* The fetch of a tile ends (lines 91-105).                                *)
(***************************************************************************)
Settle(p, state, value) ==
    [promises EXCEPT ![p] = [@ EXCEPT !.state = state, !.value = value]]

\* a success path that keeps the data only when the tile is still wanted:
\* in the visible-tile set or among the tiles of a waiting invocation
TileLoadedDropsStale(p, tileData) ==
    /\ ~MicrotaskPending
    /\ IsPending(p)
    /\ tileCacheRef' =
          IF \/ p.tileId \in visibleTilesRef
             \/ \E k \in 1..Len(inv) : p.tileId \in SeqToSet(inv[k].visibleTileIds)
            THEN MapSet(tileCacheRef, p.tileId, tileData)
            ELSE tileCacheRef
    /\ tileCache' = tileCacheRef'
    /\ inflightLoadsRef' = MapDelete(inflightLoadsRef, p.tileId)
    /\ promises' = Collect(Settle(p, "fulfilled", Some(tileData)), inv, direct,
                           inflightLoadsRef')
    /\ failedTiles' = failedTiles \ {p.tileId}
    /\ last' = Step("loaded", Null)
    /\ UNCHANGED <<visibleTiles, loading, visibleTilesRef, inv, direct>>
    /\ UNCHANGED <<manifestState, errors>>

\* a success path that leaves the registry entry in place
TileLoadedKeepsEntry(p, tileData) ==
    /\ ~MicrotaskPending
    /\ IsPending(p)
    /\ tileCacheRef' = MapSet(tileCacheRef, p.tileId, tileData)
    /\ tileCache' = tileCacheRef'
    /\ promises' = Collect(Settle(p, "fulfilled", Some(tileData)), inv, direct,
                           inflightLoadsRef)
    /\ failedTiles' = failedTiles \ {p.tileId}
    /\ last' = Step("loaded", Null)
    /\ UNCHANGED <<visibleTiles, loading, visibleTilesRef, inflightLoadsRef, inv, direct>>
    /\ UNCHANGED <<manifestState, errors>>

\* a success path that starts a new cache map holding the loaded tile only
TileLoadedResetsCache(p, tileData) ==
    /\ ~MicrotaskPending
    /\ IsPending(p)
    /\ tileCacheRef' = MapSet(EmptyMap, p.tileId, tileData)
    /\ tileCache' = tileCacheRef'
    /\ inflightLoadsRef' = MapDelete(inflightLoadsRef, p.tileId)
    /\ promises' = Collect(Settle(p, "fulfilled", Some(tileData)), inv, direct,
                           inflightLoadsRef')
    /\ failedTiles' = failedTiles \ {p.tileId}
    /\ last' = Step("loaded", Null)
    /\ UNCHANGED <<visibleTiles, loading, visibleTilesRef, inv, direct>>
    /\ UNCHANGED <<manifestState, errors>>

\* a success path that also resets the loading flag
TileLoadedClearsLoading(p, tileData) ==
    /\ ~MicrotaskPending
    /\ IsPending(p)
    /\ tileCacheRef' = MapSet(tileCacheRef, p.tileId, tileData)
    /\ tileCache' = tileCacheRef'
    /\ inflightLoadsRef' = MapDelete(inflightLoadsRef, p.tileId)
    /\ promises' = Collect(Settle(p, "fulfilled", Some(tileData)), inv, direct,
                           inflightLoadsRef')
    /\ failedTiles' = failedTiles \ {p.tileId}
    /\ loading' = FALSE
    /\ last' = Step("loaded", Null)
    /\ UNCHANGED <<visibleTiles, visibleTilesRef, inv, direct>>
    /\ UNCHANGED <<manifestState, errors>>

\* response.ok and a body that parses: lines 95-98, then finally
TileLoaded(p, tileData) ==
    /\ ~MicrotaskPending
    /\ IsPending(p)
    /\ tileCacheRef' = MapSet(tileCacheRef, p.tileId, tileData)
    /\ tileCache' = tileCacheRef'
    /\ inflightLoadsRef' = MapDelete(inflightLoadsRef, p.tileId)
    /\ promises' = Collect(Settle(p, "fulfilled", Some(tileData)), inv, direct,
                           inflightLoadsRef')
    /\ failedTiles' = failedTiles \ {p.tileId}
    /\ last' = Step("loaded", Null)
    /\ UNCHANGED <<visibleTiles, loading, visibleTilesRef, inv, direct>>
    /\ UNCHANGED <<manifestState, errors>>

\* a catch that caches an empty collection for the failing tile
TileLoadFailedPoison(p) ==
    /\ ~MicrotaskPending
    /\ IsPending(p)
    /\ tileCacheRef' = MapSet(tileCacheRef, p.tileId, FeatureCollection(<<>>))
    /\ tileCache' = tileCacheRef'
    /\ inflightLoadsRef' = MapDelete(inflightLoadsRef, p.tileId)
    /\ promises' = Collect(Settle(p, "fulfilled", Null), inv, direct, inflightLoadsRef')
    /\ failedTiles' = failedTiles \cup {p.tileId}
    /\ last' = Step("failed", Null)
    /\ UNCHANGED <<visibleTiles, loading, visibleTilesRef, inv, direct>>
    /\ UNCHANGED <<manifestState, errors>>

\* the registry entry removed at the end of the try block instead of in finally
TileLoadFailedKeepsEntry(p) ==
    /\ ~MicrotaskPending
    /\ IsPending(p)
    /\ promises' = Collect(Settle(p, "fulfilled", Null), inv, direct, inflightLoadsRef)
    /\ failedTiles' = failedTiles \cup {p.tileId}
    /\ last' = Step("failed", Null)
    /\ UNCHANGED <<visibleTiles, tileCache, loading, tileCacheRef, visibleTilesRef,
                   inflightLoadsRef, inv, direct>>
    /\ UNCHANGED <<manifestState, errors>>

\* a catch that throws the error again
TileLoadFailedRethrows(p) ==
    /\ ~MicrotaskPending
    /\ IsPending(p)
    /\ inflightLoadsRef' = MapDelete(inflightLoadsRef, p.tileId)
    /\ promises' = Collect(Settle(p, "rejected", Null), inv, direct, inflightLoadsRef')
    /\ failedTiles' = failedTiles \cup {p.tileId}
    /\ last' = Step("failed", Null)
    /\ UNCHANGED <<visibleTiles, tileCache, loading, tileCacheRef, visibleTilesRef,
                   inv, direct>>
    /\ UNCHANGED <<manifestState, errors>>

\* a catch that reports the failure of a tile through the error value
TileLoadFailedSetsError(p) ==
    /\ ~MicrotaskPending
    /\ IsPending(p)
    /\ inflightLoadsRef' = MapDelete(inflightLoadsRef, p.tileId)
    /\ promises' = Collect(Settle(p, "fulfilled", Null), inv, direct, inflightLoadsRef')
    /\ failedTiles' = failedTiles \cup {p.tileId}
    /\ last' = Step("failed", Null)
    /\ error' = Some("Failed to fetch")
    /\ UNCHANGED <<visibleTiles, tileCache, loading, tileCacheRef, visibleTilesRef,
                   inv, direct>>
    /\ UNCHANGED <<tilesManifest, manifestLoadedRef, manifestFetch, manifestFetches>>
    /\ UNCHANGED errors

\* a failed load whose finally block does not run: the entry stays in the
\* registry of loads in flight
TileLoadFailedKeepsInflight(p) ==
    /\ ~MicrotaskPending
    /\ IsPending(p)
    /\ promises' = Collect(Settle(p, "fulfilled", Null), inv, direct, inflightLoadsRef)
    /\ failedTiles' = failedTiles \cup {p.tileId}
    /\ last' = Step("failed", Null)
    /\ UNCHANGED <<visibleTiles, tileCache, loading, tileCacheRef, visibleTilesRef,
                   inflightLoadsRef, inv, direct>>
    /\ UNCHANGED <<manifestState, errors>>

\* network error, non-success status or a body that does not parse:
\* catch (lines 99-101), then finally
TileLoadFailed(p) ==
    /\ ~MicrotaskPending
    /\ IsPending(p)
    /\ inflightLoadsRef' = MapDelete(inflightLoadsRef, p.tileId)
    /\ promises' = Collect(Settle(p, "fulfilled", Null), inv, direct, inflightLoadsRef')
    /\ failedTiles' = failedTiles \cup {p.tileId}
    /\ last' = Step("failed", Null)
    /\ UNCHANGED <<visibleTiles, tileCache, loading, tileCacheRef, visibleTilesRef,
                   inv, direct>>
    /\ UNCHANGED <<manifestState, errors>>

(***************************************************************************)
(* updateVisibleTiles (lines 113-158).                                     *)
(***************************************************************************)
\* lines 120-130
HasChanges(nextVisibleSet) ==
    IF Cardinality(visibleTilesRef) # Cardinality(nextVisibleSet) THEN TRUE
    ELSE \E tileId \in nextVisibleSet : tileId \notin visibleTilesRef

RECURSIVE NotCached(_)
NotCached(tileIds) ==
    IF tileIds = <<>> THEN <<>>
    ELSE (IF MapHas(tileCacheRef, Head(tileIds)) THEN <<>> ELSE <<Head(tileIds)>>)
         \o NotCached(Tail(tileIds))

\* line 132
VisibleMissing(visibleTileIds) == NotCached(visibleTileIds)

\* a prefetch that looks at the neighbours of the first visible tile only
PrefetchIdsFirstTileOnly(visibleTileIds) ==
    IF visibleTileIds = <<>> THEN <<>>
    ELSE NotCached(SurroundingTileIds(<<Head(visibleTileIds)>>, <<>>))

\* lines 151-155: the neighbours loadTile is called for
PrefetchIds(visibleTileIds) == NotCached(SurroundingTileIds(visibleTileIds, <<>>))

\* lines 139-155: publish, then start the prefetch; invs are the invocations
\* that still wait after this step
PublishAndPrefetch(visibleTileIds, hasChanges, invs) ==
    /\ IF hasChanges
         THEN /\ visibleTilesRef' = SeqToSet(visibleTileIds)
              /\ visibleTiles' = SeqToSet(visibleTileIds)
         ELSE UNCHANGED <<visibleTilesRef, visibleTiles>>
    /\ LET after == LoadAll(LoadState, PrefetchIds(visibleTileIds), <<>>) IN
         /\ inflightLoadsRef' = after.inflight
         /\ promises' = Collect(after.promises, invs, direct, after.inflight)

\* an invocation waiting at line 135; overtaken is bookkeeping of the model,
\* not a field of the program: it tells that an invocation that was called
\* after this one and had to wait too has already continued and written the
\* visible-tile set, to ids other than this one's
Invocation(viewportBounds, visibleTileIds, hasChanges, awaited) ==
    [viewport |-> viewportBounds, visibleTileIds |-> visibleTileIds,
     hasChanges |-> hasChanges, awaited |-> awaited, overtaken |-> FALSE]

\* the first n waiting invocations see the continuation of a later one
\* write visibleTileIds to the visible-tile set (lines 139-142); only
\* invocations that will write themselves (hasChanges) are marked
Overtake(invs, n, visibleTileIds) ==
    [j \in 1..Len(invs) |->
        IF /\ j <= n
           /\ invs[j].hasChanges
           /\ SeqToSet(invs[j].visibleTileIds) # SeqToSet(visibleTileIds)
          THEN [invs[j] EXCEPT !.overtaken = TRUE] ELSE invs[j]]

\* what a step of an invocation did: pc is "noop" (line 115), "awaiting"
\* (line 135), "done" (line 156) or "threw"; failed tells that an awaited
\* load gave null; unsettled counts the awaited loads still pending;
\* overtaken is the invocation's mark when it continued
Call(viewportBounds, visibleTileIds, hasChanges, failed, unsettled, pc) ==
    [viewport |-> viewportBounds, visibleTileIds |-> visibleTileIds,
     hasChanges |-> hasChanges, failed |-> failed, unsettled |-> unsettled,
     pc |-> pc, overtaken |-> FALSE]

\* updateVisibleTiles with setLoading(true) ahead of the manifest check of
\* line 115
UpdateVisibleTilesLoadingFirst(viewportBounds) ==
    /\ ~MicrotaskPending
    /\ UNCHANGED <<tileCache, tileCacheRef, direct, failedTiles>>
    /\ UNCHANGED <<manifestState, errors>>
    /\ IF tilesManifest = Null
         THEN /\ last' = Step("update",
                              Some(Call(viewportBounds, <<>>, FALSE, FALSE, 0, "noop")))
              /\ loading' = TRUE
              /\ UNCHANGED <<visibleTiles, visibleTilesRef, inflightLoadsRef,
                             promises, inv>>
         ELSE LET visibleTileIds == GetTilesForViewport(viewportBounds)
                  hasChanges == HasChanges(SeqToSet(visibleTileIds))
                  visibleMissing == VisibleMissing(visibleTileIds)
              IN IF Len(visibleMissing) > 0
                   THEN LET after == LoadAll(LoadState, visibleMissing, <<>>) IN
                        /\ Len(inv) < MaxActive
                        /\ loading' = TRUE
                        /\ promises' = after.promises
                        /\ inflightLoadsRef' = after.inflight
                        /\ inv' = Append(inv, Invocation(viewportBounds, visibleTileIds,
                                                         hasChanges, after.rets))
                        /\ last' = Step("update",
                                        Some(Call(viewportBounds, visibleTileIds,
                                                  hasChanges, FALSE, 0, "awaiting")))
                        /\ UNCHANGED <<visibleTiles, visibleTilesRef>>
                   ELSE /\ PublishAndPrefetch(visibleTileIds, hasChanges, inv)
                        /\ last' = Step("update",
                                        Some(Call(viewportBounds, visibleTileIds,
                                                  hasChanges, FALSE, 0, "done")))
                        /\ UNCHANGED <<loading, inv>>

\* the call, up to its return or its await
UpdateVisibleTiles(viewportBounds) ==
    /\ ~MicrotaskPending
    /\ UNCHANGED <<tileCache, tileCacheRef, direct, failedTiles>>
    /\ UNCHANGED <<manifestState, errors>>
    /\ IF tilesManifest = Null
         THEN /\ last' = Step("update",
                              Some(Call(viewportBounds, <<>>, FALSE, FALSE, 0, "noop")))
              /\ UNCHANGED <<visibleTiles, loading, visibleTilesRef, inflightLoadsRef,
                             promises, inv>>
         ELSE LET visibleTileIds == GetTilesForViewport(viewportBounds)
                  hasChanges == HasChanges(SeqToSet(visibleTileIds))
                  visibleMissing == VisibleMissing(visibleTileIds)
              IN IF Len(visibleMissing) > 0
                   THEN LET after == LoadAll(LoadState, visibleMissing, <<>>) IN
                        /\ Len(inv) < MaxActive
                        /\ loading' = TRUE
                        /\ promises' = after.promises
                        /\ inflightLoadsRef' = after.inflight
                        /\ inv' = Append(inv, Invocation(viewportBounds, visibleTileIds,
                                                         hasChanges, after.rets))
                        /\ last' = Step("update",
                                        Some(Call(viewportBounds, visibleTileIds,
                                                  hasChanges, FALSE, 0, "awaiting")))
                        /\ UNCHANGED <<visibleTiles, visibleTilesRef>>
                   ELSE /\ PublishAndPrefetch(visibleTileIds, hasChanges, inv)
                        /\ last' = Step("update",
                                        Some(Call(viewportBounds, visibleTileIds,
                                                  hasChanges, FALSE, 0, "done")))
                        /\ UNCHANGED <<loading, inv>>

Remove(s, k) == [j \in 1..(Len(s) - 1) |-> IF j < k THEN s[j] ELSE s[j + 1]]

\* a continuation that leaves the visible-tile set alone when one of the
\* awaited loads gave null
ResumeKeepsSetOnFailure(k) ==
    /\ ReadyToResume(k)
    /\ \A j \in 1..(k - 1) : ~ReadyToResume(j)
    /\ UNCHANGED <<tileCache, tileCacheRef, direct, failedTiles>>
    /\ UNCHANGED <<manifestState, errors>>
    /\ inv' = IF ~AwaitRejected(k) /\ inv[k].hasChanges
                THEN Remove(Overtake(inv, k - 1, inv[k].visibleTileIds), k)
                ELSE Remove(inv, k)
    /\ LET awaited == inv[k].awaited
           failed == \E a \in 1..Len(awaited) :
                        RetSettled(awaited[a]) /\ RetValue(awaited[a]) = Null
           unsettled == Cardinality({ a \in 1..Len(awaited) : ~RetSettled(awaited[a]) })
       IN IF AwaitRejected(k)
            THEN /\ last' = Step("resume",
                                 Some(Call(inv[k].viewport, inv[k].visibleTileIds,
                                           inv[k].hasChanges, failed, unsettled, "threw")))
                 /\ promises' = Collect(promises, inv', direct, inflightLoadsRef)
                 /\ UNCHANGED <<visibleTiles, loading, visibleTilesRef, inflightLoadsRef>>
            ELSE /\ loading' = FALSE
                 /\ PublishAndPrefetch(inv[k].visibleTileIds,
                                    inv[k].hasChanges /\ ~failed, inv')
                 /\ last' = Step("resume",
                                 Some([Call(inv[k].viewport, inv[k].visibleTileIds,
                                            inv[k].hasChanges, failed, unsettled, "done")
                                         EXCEPT !.overtaken = inv[k].overtaken]))

\* a continuation that leaves the visible-tile set alone when an invocation
\* called later has written it in the meantime
ResumeDropsStale(k) ==
    /\ ReadyToResume(k)
    /\ \A j \in 1..(k - 1) : ~ReadyToResume(j)
    /\ UNCHANGED <<tileCache, tileCacheRef, direct, failedTiles>>
    /\ UNCHANGED <<manifestState, errors>>
    /\ inv' = IF ~AwaitRejected(k) /\ inv[k].hasChanges
                THEN Remove(Overtake(inv, k - 1, inv[k].visibleTileIds), k)
                ELSE Remove(inv, k)
    /\ LET awaited == inv[k].awaited
           failed == \E a \in 1..Len(awaited) :
                        RetSettled(awaited[a]) /\ RetValue(awaited[a]) = Null
           unsettled == Cardinality({ a \in 1..Len(awaited) : ~RetSettled(awaited[a]) })
       IN IF AwaitRejected(k)
            THEN /\ last' = Step("resume",
                                 Some(Call(inv[k].viewport, inv[k].visibleTileIds,
                                           inv[k].hasChanges, failed, unsettled, "threw")))
                 /\ promises' = Collect(promises, inv', direct, inflightLoadsRef)
                 /\ UNCHANGED <<visibleTiles, loading, visibleTilesRef, inflightLoadsRef>>
            ELSE /\ loading' = FALSE
                 /\ PublishAndPrefetch(inv[k].visibleTileIds,
                                    inv[k].hasChanges /\ ~inv[k].overtaken, inv')
                 /\ last' = Step("resume",
                                 Some([Call(inv[k].viewport, inv[k].visibleTileIds,
                                            inv[k].hasChanges, failed, unsettled, "done")
                                         EXCEPT !.overtaken = inv[k].overtaken]))

\* the continuation of line 135
Resume(k) ==
    /\ ReadyToResume(k)
    /\ \A j \in 1..(k - 1) : ~ReadyToResume(j)
    /\ UNCHANGED <<tileCache, tileCacheRef, direct, failedTiles>>
    /\ UNCHANGED <<manifestState, errors>>
    /\ inv' = IF ~AwaitRejected(k) /\ inv[k].hasChanges
                THEN Remove(Overtake(inv, k - 1, inv[k].visibleTileIds), k)
                ELSE Remove(inv, k)
    /\ LET awaited == inv[k].awaited
           failed == \E a \in 1..Len(awaited) :
                        RetSettled(awaited[a]) /\ RetValue(awaited[a]) = Null
           unsettled == Cardinality({ a \in 1..Len(awaited) : ~RetSettled(awaited[a]) })
       IN IF AwaitRejected(k)
            THEN /\ last' = Step("resume",
                                 Some(Call(inv[k].viewport, inv[k].visibleTileIds,
                                           inv[k].hasChanges, failed, unsettled, "threw")))
                 /\ promises' = Collect(promises, inv', direct, inflightLoadsRef)
                 /\ UNCHANGED <<visibleTiles, loading, visibleTilesRef, inflightLoadsRef>>
            ELSE /\ loading' = FALSE
                 /\ PublishAndPrefetch(inv[k].visibleTileIds, inv[k].hasChanges, inv')
                 /\ last' = Step("resume",
                                 Some([Call(inv[k].viewport, inv[k].visibleTileIds,
                                            inv[k].hasChanges, failed, unsettled, "done")
                                         EXCEPT !.overtaken = inv[k].overtaken]))

(***************************************************************************)
(* clearCache (lines 204-209).  The direct calls that have their value     *)
(* note that the cache was cleared after they got it.                      *)
(***************************************************************************)
\* a clearCache that also empties the inflight registry
ClearCacheDropsInflight ==
    /\ ~MicrotaskPending
    /\ tileCacheRef' = EmptyMap
    /\ visibleTilesRef' = {}
    /\ tileCache' = EmptyMap
    /\ visibleTiles' = {}
    /\ inflightLoadsRef' = EmptyMap
    /\ direct' = [j \in 1..Len(direct) |->
                    IF RetSettled(direct[j].ret) THEN [direct[j] EXCEPT !.cleared = TRUE]
                    ELSE direct[j]]
    /\ last' = Step("clear", Null)
    /\ UNCHANGED <<loading, promises, inv, failedTiles>>
    /\ UNCHANGED <<manifestState, errors>>

ClearCache ==
    /\ ~MicrotaskPending
    /\ tileCacheRef' = EmptyMap
    /\ visibleTilesRef' = {}
    /\ tileCache' = EmptyMap
    /\ visibleTiles' = {}
    /\ direct' = [j \in 1..Len(direct) |->
                    IF RetSettled(direct[j].ret) THEN [direct[j] EXCEPT !.cleared = TRUE]
                    ELSE direct[j]]
    /\ last' = Step("clear", Null)
    /\ UNCHANGED <<loading, inflightLoadsRef, promises, inv, failedTiles>>
    /\ UNCHANGED <<manifestState, errors>>

(***************************************************************************)
(* A caller of loadTile other than updateVisibleTiles.  The call records   *)
(* what it found: whether the latest earlier load of the tile had failed,  *)
(* and the earlier calls for the same identifier that were still waiting   *)
(* (during) or had their value (after), and of these the ones that saw the *)
(* cache cleared since (afterCleared).                                     *)
(***************************************************************************)
\* the latest promise created for tileId, if any
LastPromiseOf(tileId) ==
    LET ps == { p \in DOMAIN promises : p.tileId = tileId } IN
    IF ps = {} THEN Null ELSE Some(CHOOSE p \in ps : \A q \in ps : q.n <= p.n)

DirectLoadTile(tileId) ==
    /\ ~MicrotaskPending
    /\ Len(direct) < MaxDirect
    /\ LET r == LoadTile(LoadState, tileId)
           same == { j \in 1..Len(direct) : direct[j].tileId = tileId }
           lastp == LastPromiseOf(tileId)
       IN /\ promises' = r.promises
          /\ inflightLoadsRef' = r.inflight
          /\ direct' = Append(direct,
                 [tileId |-> tileId, ret |-> r.ret,
                  started |-> DOMAIN r.promises # DOMAIN promises,
                  known |-> FindTile(tileId) # Null,
                  cleared |-> FALSE,
                  afterFailure |-> (lastp # Null /\ ~IsPending(lastp[1])
                                    /\ promises[lastp[1]].value = Null),
                  during |-> { j \in same : ~RetSettled(direct[j].ret) },
                  after |-> { j \in same : RetSettled(direct[j].ret) },
                  afterCleared |-> { j \in same : direct[j].cleared }])
    /\ last' = Step("direct", Null)
    /\ UNCHANGED <<visibleTiles, tileCache, loading, tileCacheRef, visibleTilesRef,
                   inv, failedTiles>>
    /\ UNCHANGED <<manifestState, errors>>

(***************************************************************************)
(* getVisibleParcels (lines 160-202).  A JavaScript Set iterates in        *)
(* insertion order; the visible-tile set is only ever built from the list  *)
(* getTilesForViewport returns (line 118), which is in the order of the    *)
(* manifest.                                                               *)
(***************************************************************************)
\* for (const tileId of visibleTiles)
IterationOrder(tileIds) ==
    IF tilesManifest = Null THEN <<>>
    ELSE LET ids == [k \in 1..Len(tilesManifest[1].tiles) |->
                       TileIdOf(tilesManifest[1].tiles[k].col,
                                tilesManifest[1].tiles[k].row)]
         IN SelectSeq(ids, LAMBDA tileId : tileId \in tileIds)

\* lines 164-169: the features of the visible tiles the cache holds
RECURSIVE AllFeatures(_)
AllFeatures(tileIds) ==
    IF tileIds = <<>> THEN <<>>
    ELSE (IF MapHas(tileCacheRef, Head(tileIds))
               /\ "features" \in DOMAIN tileCacheRef[Head(tileIds)]
            THEN tileCacheRef[Head(tileIds)].features
            ELSE <<>>) \o AllFeatures(Tail(tileIds))

\* Array.prototype.flat(1) of an array of arrays
RECURSIVE Flat1(_)
Flat1(s) == IF s = <<>> THEN <<>> ELSE Head(s) \o Flat1(Tail(s))

\* Array.prototype.flat(2) of an array of arrays of arrays
Flat2(s) == Flat1(Flat1(s))

\* the comparisons with < and > in place of <= and >=
InViewportOpen(coord, viewportBounds) ==
    /\ coord[1] > viewportBounds.minLng
    /\ coord[1] < viewportBounds.maxLng
    /\ coord[2] > viewportBounds.minLat
    /\ coord[2] < viewportBounds.maxLat

\* lines 185-191
InViewport(coord, viewportBounds) ==
    /\ coord[1] >= viewportBounds.minLng
    /\ coord[1] <= viewportBounds.maxLng
    /\ coord[2] >= viewportBounds.minLat
    /\ coord[2] <= viewportBounds.maxLat

\* lines 177-192: the callback of the filter
FeatureInViewport(feature, viewportBounds) ==
    IF "geometry" \notin DOMAIN feature THEN FALSE
    ELSE LET geometry == feature.geometry
             coords == IF geometry.type = "MultiPolygon"
                         THEN Flat2(geometry.coordinates)
                         ELSE Flat1(geometry.coordinates)
         IN \E c \in 1..Len(coords) : InViewport(coords[c], viewportBounds)

\* a getVisibleParcels that stops at the first visible tile the cache holds
GetVisibleParcelsFirstTile(viewportBounds) ==
    LET cached == SelectSeq(IterationOrder(visibleTiles),
                            LAMBDA tileId : MapHas(tileCacheRef, tileId))
        allFeatures == AllFeatures(IF cached = <<>> THEN <<>> ELSE <<Head(cached)>>)
    IN IF Len(allFeatures) = 0 THEN Null
       ELSE Some(FeatureCollection(
                IF viewportBounds # Null
                  THEN SelectSeq(allFeatures,
                                 LAMBDA feature : FeatureInViewport(feature, viewportBounds[1]))
                  ELSE allFeatures))

\* a getVisibleParcels that returns an empty collection instead of null
GetVisibleParcelsNeverNull(viewportBounds) ==
    LET allFeatures == AllFeatures(IterationOrder(visibleTiles))
    IN Some(FeatureCollection(
            IF viewportBounds # Null
              THEN SelectSeq(allFeatures,
                             LAMBDA feature : FeatureInViewport(feature, viewportBounds[1]))
              ELSE allFeatures))

\* a getVisibleParcels that returns null when the filter leaves no feature
GetVisibleParcelsNullAfterFilter(viewportBounds) ==
    LET allFeatures == AllFeatures(IterationOrder(visibleTiles))
        filteredFeatures ==
            IF viewportBounds # Null
              THEN SelectSeq(allFeatures,
                             LAMBDA feature : FeatureInViewport(feature, viewportBounds[1]))
              ELSE allFeatures
    IN IF Len(filteredFeatures) = 0 THEN Null
       ELSE Some(FeatureCollection(filteredFeatures))

\* the value getVisibleParcels returns: Null or Some(collection);
\* viewportBounds is Null (the default) or Some(bounds)
GetVisibleParcels(viewportBounds) ==
    LET allFeatures == AllFeatures(IterationOrder(visibleTiles))
    IN IF Len(allFeatures) = 0 THEN Null
       ELSE Some(FeatureCollection(
                IF viewportBounds # Null
                  THEN SelectSeq(allFeatures,
                                 LAMBDA feature : FeatureInViewport(feature, viewportBounds[1]))
                  ELSE allFeatures))

\* the viewports getVisibleParcels is called with: none, one inside tile 0_0
\* and one across tiles 1_0 and 1_1
ParcelViewports == { Null, Some(Box(3, 5, 3, 5)), Some(Box(12, 14, 2, 14)) }

\* what a call of getVisibleParcels was given and returned
ParcelsCall(viewportBounds, result) == [viewport |-> viewportBounds, result |-> result]

\* a getVisibleParcels that asks for the visible tiles the cache lacks
GetVisibleParcelsCallLoads(viewportBounds) ==
    /\ ~MicrotaskPending
    /\ last' = Step("parcels",
                    Some(ParcelsCall(viewportBounds, GetVisibleParcels(viewportBounds))))
    /\ LET after == LoadAll(LoadState, NotCached(IterationOrder(visibleTiles)), <<>>) IN
         /\ inflightLoadsRef' = after.inflight
         /\ promises' = Collect(after.promises, inv, direct, after.inflight)
    /\ UNCHANGED <<visibleTiles, tileCache, loading, tileCacheRef, visibleTilesRef,
                   inv, direct, failedTiles>>
    /\ UNCHANGED <<manifestState, errors>>

\* a call of getVisibleParcels
GetVisibleParcelsCall(viewportBounds) ==
    /\ ~MicrotaskPending
    /\ last' = Step("parcels",
                    Some(ParcelsCall(viewportBounds, GetVisibleParcels(viewportBounds))))
    /\ UNCHANGED <<visibleTiles, tileCache, loading, tileCacheRef, visibleTilesRef,
                   inflightLoadsRef, promises, inv, direct, failedTiles>>
    /\ UNCHANGED <<manifestState, errors>>

(***************************************************************************)
(* Specifications.  Spec: the hook as the map drives it.  SpecLoadTile:    *)
(* loadTile called directly, with fetch completions and clearCache.        *)
(* SpecParcels: the hook as the map drives it, getVisibleParcels included. *)
(***************************************************************************)
TileFetchEnds ==
    \E p \in DOMAIN promises :
        \/ \E tileData \in ServerBodies(promises[p].file) : TileLoaded(p, tileData)
        \/ (promises[p].file \in FailingFiles /\ TileLoadFailed(p))

Next ==
    \/ MountEffect
    \/ ManifestLoaded
    \/ ManifestFailed
    \/ \E viewportBounds \in Viewports : UpdateVisibleTiles(viewportBounds)
    \/ \E k \in 1..Len(inv) : Resume(k)
    \/ TileFetchEnds
    \/ ClearCache

Spec == Init /\ [][Next]_vars

NextLoadTile ==
    \/ MountEffect
    \/ ManifestLoaded
    \/ ManifestFailed
    \/ \E tileId \in DirectIds : DirectLoadTile(tileId)
    \/ TileFetchEnds
    \/ ClearCache

SpecLoadTile == Init /\ [][NextLoadTile]_vars

NextParcels ==
    \/ MountEffect
    \/ ManifestLoaded
    \/ ManifestFailed
    \/ \E viewportBounds \in Viewports :
          UpdateVisibleTiles(viewportBounds) /\ Len(inv') <= MaxParcelsActive
    \/ \E k \in 1..Len(inv) : Resume(k)
    \/ TileFetchEnds
    \/ ClearCache
    \/ \E viewportBounds \in ParcelViewports : GetVisibleParcelsCall(viewportBounds)

SpecParcels == Init /\ [][NextParcels]_vars

(***************************************************************************)
(* The intersection engine on its own: getTilesForViewport and             *)
(* getSurroundingTiles applied to a stored manifest (lines 36-74).         *)
(***************************************************************************)

\* the cells of a grid in the order of the split script's loops, rows
\* outermost (scripts/split-parcels-into-tiles.mjs lines 93-94)
GridCells(cols, rows) ==
    [k \in 1..(cols * rows) |-> <<(k - 1) % cols, (k - 1) \div cols>>]

\* tileCoordToBbox for tiles 10 wide and 10 high from the origin
TileCoordToBbox(col, row) == Box(col * 10, (col + 1) * 10, row * 10, (row + 1) * 10)

\* the descriptors the script pushes: one per cell that holds a parcel
RECURSIVE GridTiles(_, _)
GridTiles(cells, kept) ==
    IF cells = <<>> THEN <<>>
    ELSE (IF Head(cells) \in kept
            THEN <<TileDescriptor(Head(cells)[1], Head(cells)[2],
                                  TileCoordToBbox(Head(cells)[1], Head(cells)[2]))>>
            ELSE <<>>) \o GridTiles(Tail(cells), kept)

\* the manifest the script writes for a grid of which the cells kept hold
\* parcels
GridManifest(cols, rows, kept) ==
    [bounds |-> Box(0, cols * 10, 0, rows * 10),
     grid |-> [cols |-> cols, rows |-> rows],
     tiles |-> GridTiles(GridCells(cols, rows), kept)]

\* The manifests the hook may hold: every 2 by 2 grid, from no tile to all
\* four, the full 3 by 3 grid and a 3 by 3 grid with two cells left out.
TileManifests ==
    { GridManifest(2, 2, kept) : kept \in SUBSET ((0..1) \X (0..1)) }
      \cup { GridManifest(3, 3, (0..2) \X (0..2)),
             GridManifest(3, 3, ((0..2) \X (0..2)) \ { <<1, 1>>, <<2, 0>> }) }

\* The coordinates of the viewports asked about: the lines of the grids, a
\* value inside the first tile and one below the data; 30 lies above the
\* data of the 2 by 2 grids.
TileCoords == { -5, 0, 5, 10, 20, 30 }

TileViewports ==
    { Box(w, e, s, n) : <<w, e, s, n>> \in
        { c \in TileCoords \X TileCoords \X TileCoords \X TileCoords :
            c[1] <= c[2] /\ c[3] <= c[4] } }

\* the column and row arguments of getSurroundingTiles
CellArgs == { NaN } \cup { Some(n) : n \in -1..3 }

\* the hook with its manifest request pending or answered with a manifest,
\* and nothing else done yet
InitTiles ==
    /\ tilesManifest \in { Null } \cup { Some(m) : m \in TileManifests }
    /\ manifestLoadedRef = TRUE
    /\ manifestFetch = IF tilesManifest = Null THEN "pending" ELSE "done"
    /\ manifestFetches = 1
    /\ visibleTiles = {}
    /\ tileCache = EmptyMap
    /\ loading = FALSE
    /\ error = Null
    /\ tileCacheRef = EmptyMap
    /\ visibleTilesRef = {}
    /\ inflightLoadsRef = EmptyMap
    /\ promises = EmptyMap
    /\ inv = <<>>
    /\ direct = <<>>
    /\ failedTiles = {}
    /\ errors = <<>>
    /\ last = Step("init", Null)

GetTilesForViewportCall(bounds) ==
    /\ last' = Step("tiles",
                    Some([viewport |-> bounds, result |-> GetTilesForViewport(bounds)]))
    /\ UNCHANGED <<visibleTiles, tileCache, loading, tileCacheRef, visibleTilesRef,
                   inflightLoadsRef, promises, inv, direct, failedTiles>>
    /\ UNCHANGED <<manifestState, errors>>

GetSurroundingTilesCall(col, row) ==
    /\ last' = Step("surrounding",
                    Some([col |-> col, row |-> row,
                          result |-> GetSurroundingTiles(col, row)]))
    /\ UNCHANGED <<visibleTiles, tileCache, loading, tileCacheRef, visibleTilesRef,
                   inflightLoadsRef, promises, inv, direct, failedTiles>>
    /\ UNCHANGED <<manifestState, errors>>

NextTiles ==
    \/ \E bounds \in TileViewports : GetTilesForViewportCall(bounds)
    \/ \E col \in CellArgs, row \in CellArgs : GetSurroundingTilesCall(col, row)

SpecTiles == InitTiles /\ [][NextTiles]_vars

(***************************************************************************)
(* The hook driven by a caller that lets an invocation of                  *)
(* updateVisibleTiles finish before it calls updateVisibleTiles or         *)
(* clearCache again.                                                       *)
(***************************************************************************)
NextNoOverlap ==
    \/ MountEffect
    \/ ManifestLoaded
    \/ ManifestFailed
    \/ \E viewportBounds \in Viewports :
          inv = <<>> /\ UpdateVisibleTiles(viewportBounds)
    \/ \E k \in 1..Len(inv) : Resume(k)
    \/ TileFetchEnds
    \/ (inv = <<>> /\ ClearCache)

SpecNoOverlap == Init /\ [][NextNoOverlap]_vars

(***************************************************************************)
(* A session in which clearCache is never called.                          *)
(***************************************************************************)
NextNoClear ==
    \/ MountEffect
    \/ ManifestLoaded
    \/ ManifestFailed
    \/ \E viewportBounds \in Viewports : UpdateVisibleTiles(viewportBounds)
    \/ \E k \in 1..Len(inv) : Resume(k)
    \/ TileFetchEnds

SpecNoClear == Init /\ [][NextNoClear]_vars

(***************************************************************************)
(* The move handler of the map (App.jsx lines 607-646).  An event carries  *)
(* the viewport of the map and its zoom, of which only zoom >= 10 matters. *)
(* The handler runs in one step: updateVisibleTiles up to its return or    *)
(* its await, then getVisibleParcels() of the render the handler belongs   *)
(* to, whose visibleTiles is the state before this step.                   *)
(***************************************************************************)
\* what a move event did: the call of updateVisibleTiles it made, or Null,
\* and the value it gave to setVisibleParcels
Move(viewportBounds, zoomed, call, parcels) ==
    [viewport |-> viewportBounds, zoomed |-> zoomed, call |-> call, parcels |-> parcels]

\* lines 630-636: a collection with features is rendered, anything else is null
Rendered(parcels) ==
    IF parcels # Null /\ Len(parcels[1].features) > 0 THEN parcels ELSE Null

\* a handler that reads getVisibleParcels from the visible-tile set as
\* updateVisibleTiles left it
OnMoveReadsPublished(viewportBounds, zoomed) ==
    /\ ~MicrotaskPending
    /\ UNCHANGED <<tileCache, tileCacheRef, direct, failedTiles>>
    /\ UNCHANGED <<manifestState, errors>>
    /\ IF tilesManifest # Null /\ zoomed
         THEN LET visibleTileIds == GetTilesForViewport(viewportBounds)
                  hasChanges == HasChanges(SeqToSet(visibleTileIds))
                  visibleMissing == VisibleMissing(visibleTileIds)
              IN IF Len(visibleMissing) > 0
                   THEN LET after == LoadAll(LoadState, visibleMissing, <<>>) IN
                        /\ Len(inv) < MaxActive
                        /\ loading' = TRUE
                        /\ promises' = after.promises
                        /\ inflightLoadsRef' = after.inflight
                        /\ inv' = Append(inv, Invocation(viewportBounds, visibleTileIds,
                                                         hasChanges, after.rets))
                        /\ UNCHANGED <<visibleTiles, visibleTilesRef>>
                        /\ last' = Step("move",
                                        Some(Move(viewportBounds, zoomed,
                                                  Some(Call(viewportBounds, visibleTileIds,
                                                            hasChanges, FALSE, 0, "awaiting")),
                                                  Rendered(GetVisibleParcels(Null)))))
                   ELSE /\ PublishAndPrefetch(visibleTileIds, hasChanges, inv)
                        /\ UNCHANGED <<loading, inv>>
                        /\ last' = Step("move",
                                        Some(Move(viewportBounds, zoomed,
                                                  Some(Call(viewportBounds, visibleTileIds,
                                                            hasChanges, FALSE, 0, "done")),
                                                  Rendered(GetVisibleParcels(Null)'))))
         ELSE /\ last' = Step("move", Some(Move(viewportBounds, zoomed, Null, Null)))
              /\ UNCHANGED <<visibleTiles, loading, visibleTilesRef, inflightLoadsRef,
                             promises, inv>>

\* onMove
OnMove(viewportBounds, zoomed) ==
    /\ ~MicrotaskPending
    /\ UNCHANGED <<tileCache, tileCacheRef, direct, failedTiles>>
    /\ UNCHANGED <<manifestState, errors>>
    /\ IF tilesManifest # Null /\ zoomed
         THEN LET visibleTileIds == GetTilesForViewport(viewportBounds)
                  hasChanges == HasChanges(SeqToSet(visibleTileIds))
                  visibleMissing == VisibleMissing(visibleTileIds)
                  \* line 629, read from the state the handler was rendered with
                  parcels == GetVisibleParcels(Null)
              IN IF Len(visibleMissing) > 0
                   THEN LET after == LoadAll(LoadState, visibleMissing, <<>>) IN
                        /\ Len(inv) < MaxActive
                        /\ loading' = TRUE
                        /\ promises' = after.promises
                        /\ inflightLoadsRef' = after.inflight
                        /\ inv' = Append(inv, Invocation(viewportBounds, visibleTileIds,
                                                         hasChanges, after.rets))
                        /\ UNCHANGED <<visibleTiles, visibleTilesRef>>
                        /\ last' = Step("move",
                                        Some(Move(viewportBounds, zoomed,
                                                  Some(Call(viewportBounds, visibleTileIds,
                                                            hasChanges, FALSE, 0, "awaiting")),
                                                  Rendered(parcels))))
                   ELSE /\ PublishAndPrefetch(visibleTileIds, hasChanges, inv)
                        /\ UNCHANGED <<loading, inv>>
                        /\ last' = Step("move",
                                        Some(Move(viewportBounds, zoomed,
                                                  Some(Call(viewportBounds, visibleTileIds,
                                                            hasChanges, FALSE, 0, "done")),
                                                  Rendered(parcels))))
         ELSE /\ last' = Step("move", Some(Move(viewportBounds, zoomed, Null, Null)))
              /\ UNCHANGED <<visibleTiles, loading, visibleTilesRef, inflightLoadsRef,
                             promises, inv>>

\* App.jsx uses updateVisibleTiles and getVisibleParcels of the hook, through
\* onMove only (line 319)
NextMove ==
    \/ MountEffect
    \/ ManifestLoaded
    \/ ManifestFailed
    \/ \E viewportBounds \in Viewports, zoomed \in BOOLEAN : OnMove(viewportBounds, zoomed)
    \/ \E k \in 1..Len(inv) : Resume(k)
    \/ TileFetchEnds

SpecMove == Init /\ [][NextMove]_vars

(***************************************************************************)
(* The hook as the map drives it, on a network that answers every request  *)
(* and an event loop that runs every continuation that is ready.           *)
(***************************************************************************)
\* the identifiers of the tiles the server has files for
ServerTileIds ==
    { TileIdOf(ServerManifest.tiles[k].col, ServerManifest.tiles[k].row) :
        k \in 1..Len(ServerManifest.tiles) }

\* the fetch of tile tileId that is on the network ends
TileFetchEndsOf(tileId) ==
    \E p \in DOMAIN promises :
        /\ p.tileId = tileId
        /\ \/ \E tileData \in ServerBodies(promises[p].file) : TileLoaded(p, tileData)
           \/ (promises[p].file \in FailingFiles /\ TileLoadFailed(p))

\* the step runs the continuation of an invocation
ResumeStep == last'.op = "resume" /\ inv' # inv

\* A continuation that is ready runs before anything else does: the steps
\* Resume is enabled exactly in the states MicrotaskPending, so this is
\* WF_vars(\E k \in 1..Len(inv) : Resume(k)) with its ENABLED written as the
\* state predicate it equals.
ContinuationsRun == []<>~MicrotaskPending \/ []<><<ResumeStep>>_vars

\* A fetch cannot end while a continuation is ready to run, so the end of a
\* fetch is enabled again and again rather than without a break: strong
\* fairness.
SpecLive ==
    /\ Init
    /\ [][Next]_vars
    /\ \A tileId \in ServerTileIds : SF_vars(TileFetchEndsOf(tileId))
    /\ ContinuationsRun

(***************************************************************************)
(* The error tracker (services/errorTracker.js lines 6-32): a list of at   *)
(* most MAX_ERRORS entries, newest first.  The timestamp and the context   *)
(* of an entry are left out.                                               *)
(***************************************************************************)
MAX_ERRORS == 10

\* the values addError is called with: what the interception of fetch passes
\* for a response that is not ok and for a network error, and no value
ErrorInputs ==
    { Null,
      Some([message |-> "HTTP 404", status |-> Some(404)]),
      Some([message |-> "Failed to fetch", status |-> Null]) }

\* lines 10-16
ErrorEntry(err) ==
    [message |-> err.message, status |-> err.status, type |-> "ERROR"]

\* what a call of addError was given, and the length of the list before it
ErrorCall(err, before) == [error |-> err, before |-> before]

\* an addError that never trims the list
AddErrorNoTrim(err) ==
    /\ IF err = Null
         THEN UNCHANGED errors
         ELSE errors' = <<ErrorEntry(err[1])>> \o errors
    /\ last' = Step("addError", Some(ErrorCall(err, Len(errors))))
    /\ UNCHANGED <<visibleTiles, tileCache, loading, tileCacheRef, visibleTilesRef,
                   inflightLoadsRef, promises, inv, direct, failedTiles>>
    /\ UNCHANGED manifestState

\* addError(err): reading err.message of no value throws before the list
\* is touched (line 12); else unshift (line 18) and slice (lines 19-21)
AddError(err) ==
    /\ IF err = Null
         THEN UNCHANGED errors
         ELSE LET unshifted == <<ErrorEntry(err[1])>> \o errors
              IN errors' = IF Len(unshifted) > MAX_ERRORS
                             THEN SubSeq(unshifted, 1, MAX_ERRORS)
                             ELSE unshifted
    /\ last' = Step("addError", Some(ErrorCall(err, Len(errors))))
    /\ UNCHANGED <<visibleTiles, tileCache, loading, tileCacheRef, visibleTilesRef,
                   inflightLoadsRef, promises, inv, direct, failedTiles>>
    /\ UNCHANGED manifestState

\* clearErrors (lines 30-32)
ClearErrors ==
    /\ errors' = <<>>
    /\ last' = Step("clearErrors", Null)
    /\ UNCHANGED <<visibleTiles, tileCache, loading, tileCacheRef, visibleTilesRef,
                   inflightLoadsRef, promises, inv, direct, failedTiles>>
    /\ UNCHANGED manifestState

NextErrors ==
    \/ \E err \in ErrorInputs : AddError(err)
    \/ ClearErrors

SpecErrors == Init /\ [][NextErrors]_vars

(***************************************************************************)
(* Properties.                                                             *)
(***************************************************************************)

\* C1: in every reachable state, for every tile identifier, at most one fetch
\* is on the network.
C1_OneFetchPerTile ==
    \A p \in DOMAIN promises : \A q \in DOMAIN promises :
        (IsPending(p) /\ IsPending(q) /\ p.tileId = q.tileId) => p = q

\* two invocations wait for the same fetch, which is still on the network
C1_TwoWaitForOneFetch ==
    /\ Len(inv) = 2
    /\ \E p \in RetPromises(inv[1].awaited) \cap RetPromises(inv[2].awaited) :
          IsPending(p) /\ Outstanding(p.tileId) = {p}

\* C2: a loadTile(id) call made while earlier calls for id still wait starts no
\* fetch, returns the promise those calls hold, and so resolves to the value
\* they resolve to (the tile data, or null).
C2_ConcurrentCallsShareFetch ==
    \A c \in 1..Len(direct) : \A j \in direct[c].during :
        /\ ~direct[c].started
        /\ direct[c].ret.promise # Null
        /\ direct[c].ret.promise = direct[j].ret.promise
        /\ RetSettled(direct[c].ret) =>
              /\ RetSettled(direct[j].ret)
              /\ RetValue(direct[c].ret) = RetValue(direct[j].ret)

\* three calls for one tile, the second and third made while the first waited,
\* have all resolved to the tile data of the one fetch
C2_ThreeCallersOneFetch ==
    /\ Len(direct) = 3
    /\ direct[2].during = {1}
    /\ direct[3].during = {1, 2}
    /\ direct[1].started
    /\ RetSettled(direct[3].ret)
    /\ RetValue(direct[3].ret) # Null
    /\ Cardinality({ p \in DOMAIN promises : p.tileId = direct[1].tileId }) = 1

\* C3 as stated: a loadTile(id) call, made after an earlier call for id (a
\* tile of the manifest) has resolved, starts no fetch and returns at once the
\* value the earlier call resolved to.
C3_SequentialCallsOneFetch ==
    \A c \in 1..Len(direct) : \A j \in direct[c].after :
        direct[j].known =>
            /\ ~direct[c].started
            /\ direct[c].ret.promise = Null
            /\ RetValue(direct[c].ret) = RetValue(direct[j].ret)

\* C3 as amended: a loadTile(id) call, made after an earlier call for id has
\* resolved to tile data and with no clearCache since that value was there,
\* starts no fetch and returns at once the cached value, the one the earlier
\* call resolved to.
C3_SequentialCallsAfterSuccess ==
    \A c \in 1..Len(direct) : \A j \in direct[c].after \ direct[c].afterCleared :
        RetValue(direct[j].ret) # Null =>
            /\ ~direct[c].started
            /\ direct[c].ret.promise = Null
            /\ direct[c].ret.value = RetValue(direct[j].ret)

\* the first call fetched the tile, the second one got the cached value at once
C3_SecondCallCached ==
    /\ Len(direct) >= 2
    /\ direct[1].started
    /\ 1 \in direct[2].after \ direct[2].afterCleared
    /\ direct[2].ret.promise = Null
    /\ direct[2].ret.value # Null
    /\ direct[2].ret.value = RetValue(direct[1].ret)

\* C4: an invocation writes the visible-tile set only when every load it
\* awaits has resolved: at its write no awaited load is still pending.
C4_PublishAfterLoads ==
    (last.op = "resume" /\ last.call[1].pc = "done" /\ last.call[1].hasChanges)
        => last.call[1].unsettled = 0

\* an invocation that awaited loads has just written its set
C4_PublishedAfterAwait ==
    /\ last.op = "resume"
    /\ last.call[1].pc = "done"
    /\ last.call[1].hasChanges
    /\ visibleTilesRef = SeqToSet(last.call[1].visibleTileIds)
    /\ visibleTilesRef # {}

\* C5 as stated: every tile of the published visible-tile set is in the cache
\* or is a tile whose load failed.
C5_VisibleTilesLoadedOrFailed ==
    \A tileId \in visibleTiles : MapHas(tileCacheRef, tileId) \/ tileId \in failedTiles

\* the step is a write of updateVisibleTiles to the visible-tile set
PublishStep ==
    /\ last' # last \/ inv' # inv
    /\ last'.op \in {"update", "resume"}
    /\ last'.call[1].pc = "done"
    /\ last'.call[1].hasChanges

\* C6 as stated: every write of updateVisibleTiles to the visible-tile set
\* changes its membership.
C6_EveryPublishChangesSet ==
    [][PublishStep => visibleTilesRef' # visibleTilesRef]_vars

\* the step is the end of a fetch that failed
FailureStep == last'.op = "failed" /\ promises' # promises

\* the promises whose fetch ends in the step
SettledInStep ==
    { p \in DOMAIN promises :
        IsPending(p) /\ (p \notin DOMAIN promises' \/ promises'[p].state # "pending") }

\* C7: when a tile fetch fails, the load resolves to null, the cache and the
\* manifest stay as they were, and the tile is not in the cache.
C7_FailedLoadLeavesCache ==
    [][FailureStep =>
          /\ tileCacheRef' = tileCacheRef
          /\ tileCache' = tileCache
          /\ tilesManifest' = tilesManifest
          /\ \A p \in SettledInStep :
                /\ ~MapHas(tileCacheRef', p.tileId)
                /\ p \in DOMAIN promises' =>
                      (promises'[p].state = "fulfilled" /\ promises'[p].value = Null)]_vars

\* a fetch has just failed while another tile is cached and an invocation
\* waits for the failed load
C7_FailedWithCache ==
    /\ last.op = "failed"
    /\ tileCacheRef # EmptyMap
    /\ \E k \in 1..Len(inv) : \E a \in 1..Len(inv[k].awaited) :
          RetSettled(inv[k].awaited[a]) /\ RetValue(inv[k].awaited[a]) = Null

\* C8: the inflight registry holds entries of pending loads only (the entry is
\* gone once the load ended, with data or with null), and a loadTile call made
\* after the latest load of the tile failed starts a fresh fetch.
C8_EntryRemovedOnCompletion ==
    /\ \A tileId \in DOMAIN inflightLoadsRef :
          /\ inflightLoadsRef[tileId] \in DOMAIN promises
          /\ IsPending(inflightLoadsRef[tileId])
    /\ \A c \in 1..Len(direct) :
          direct[c].afterFailure =>
              /\ direct[c].started
              /\ direct[c].ret.promise # Null

\* a call made after a failed load fetched again and got the tile
C8_RetryAfterFailure ==
    \E c \in 1..Len(direct) :
        /\ direct[c].afterFailure
        /\ direct[c].started
        /\ RetSettled(direct[c].ret)
        /\ RetValue(direct[c].ret) # Null
        /\ ~MapHas(inflightLoadsRef, direct[c].tileId)

\* the step continues an invocation one of whose awaited loads gave null
ResumeAfterFailure ==
    /\ inv' # inv
    /\ last'.op = "resume"
    /\ last'.call[1].failed

\* C9: a failed tile load does not abort the invocation: its continuation
\* runs to the end (nothing is thrown), resets the loading flag, writes the
\* visible-tile set exactly as without a failure (when hasChanges) and
\* starts the prefetch of every uncached neighbour; and every load that
\* succeeds puts its tile into the cache.
C9_FailureDoesNotAbort ==
    [][ /\ ResumeAfterFailure =>
              /\ last'.call[1].pc = "done"
              /\ loading' = FALSE
              /\ last'.call[1].hasChanges =>
                    /\ visibleTilesRef' = SeqToSet(last'.call[1].visibleTileIds)
                    /\ visibleTiles' = SeqToSet(last'.call[1].visibleTileIds)
              /\ \A tileId \in SeqToSet(PrefetchIds(last'.call[1].visibleTileIds)) :
                    /\ MapHas(inflightLoadsRef', tileId)
                    /\ promises'[inflightLoadsRef'[tileId]].state = "pending"
        /\ last'.op = "loaded" =>
              \A p \in SettledInStep :
                  /\ MapHas(tileCacheRef', p.tileId)
                  /\ tileCacheRef'[p.tileId] \in ServerBodies(promises[p].file)
      ]_vars

\* an invocation for two tiles, one loaded and one failed, has just ended:
\* its set is published and the prefetch of the third tile is on its way
C9_PartialFailurePublished ==
    /\ last.op = "resume"
    /\ last.call[1].failed
    /\ last.call[1].pc = "done"
    /\ visibleTiles = SeqToSet(last.call[1].visibleTileIds)
    /\ \E tileId \in visibleTiles : MapHas(tileCacheRef, tileId)
    /\ \E tileId \in visibleTiles : ~MapHas(tileCacheRef, tileId)
    /\ \E tileId \in DOMAIN inflightLoadsRef : tileId \notin visibleTiles

\* C10: loadTile for an identifier without a descriptor returns null at once
\* and starts no fetch; no such identifier is ever in the inflight registry,
\* among the fetches or in the cache.
C10_UnknownTileReturnsNull ==
    /\ \A c \in 1..Len(direct) :
          ~direct[c].known => (direct[c].ret = Immediate(Null) /\ ~direct[c].started)
    /\ \A tileId \in (DOMAIN inflightLoadsRef) \cup (DOMAIN tileCacheRef)
                     \cup { p.tileId : p \in DOMAIN promises } :
          FindTile(tileId) # Null

\* with the manifest loaded and a tile fetched, a call for the cell the grid
\* leaves out returned null
C10_UnknownTileAsked ==
    \E c \in 1..Len(direct) : \E j \in 1..(c - 1) :
        /\ direct[j].started
        /\ direct[c].tileId = TileIdOf(0, 1)
        /\ ~direct[c].known
        /\ direct[c].ret = Immediate(Null)


\* the step is a call of updateVisibleTiles
UpdateStep == last' # last /\ last'.op = "update"

\* C11: while the manifest is unset (its load pending or failed), a call of
\* updateVisibleTiles returns at once and changes nothing: no fetch starts and
\* the cache, the inflight registry, the visible-tile set and the loading flag
\* stay as they were; the tile system holds nothing as long as the manifest
\* is unset.
C11_NoManifestNoOp ==
    [][ /\ (UpdateStep /\ tilesManifest = Null) =>
              /\ last'.call[1].pc = "noop"
              /\ UNCHANGED <<tileCacheRef, tileCache, inflightLoadsRef, promises,
                             visibleTilesRef, visibleTiles, loading, inv>>
        /\ tilesManifest' = Null =>
              /\ promises' = EmptyMap
              /\ inflightLoadsRef' = EmptyMap
              /\ tileCacheRef' = EmptyMap
              /\ visibleTiles' = {}
              /\ loading' = FALSE
      ]_vars

\* updateVisibleTiles was called after the load of the manifest failed
C11_CalledAfterManifestFailure ==
    /\ last.op = "update"
    /\ last.call[1].pc = "noop"
    /\ tilesManifest = Null
    /\ error # Null
    /\ manifestFetch = "done"

\* C12: the manifest is requested at most once, however often the effect
\* runs; when that request fails an error is stored, and from then on the
\* manifest stays unset, the error stays and no request is issued again; a
\* manifest once set is never changed by any step (tile loads and clearCache
\* included).
C12_ManifestFetchedOnce ==
    [][ /\ manifestFetches' <= 1
        /\ tilesManifest # Null => tilesManifest' = tilesManifest
        /\ (manifestFetch = "pending" /\ manifestFetch' = "done"
              /\ tilesManifest' = Null) => error' # Null
        /\ error # Null =>
              /\ error' = error
              /\ tilesManifest' = Null
              /\ manifestFetch' = "done"
              /\ manifestFetches' = manifestFetches
      ]_vars

\* the one request failed and the session went on: the cache was cleared and
\* the manifest is still unset, with the error stored
C12_FailedAndNotRetried ==
    /\ manifestFetches = 1
    /\ manifestLoadedRef
    /\ manifestFetch = "done"
    /\ tilesManifest = Null
    /\ error # Null
    /\ last.op = "clear"

\* the step is a call of clearCache (a call that finds everything empty
\* already changes nothing)
ClearStep == last' # last /\ last'.op = "clear"

\* C13: clearCache empties the cache and the visible-tile set (refs and
\* state) and leaves the manifest, the inflight registry and the fetches on
\* the network as they were; a fetch that ends with data after that puts its
\* tile into the cache as it then is, keeping what the cache holds.
C13_ClearCacheKeepsInflight ==
    [][ /\ ClearStep =>
              /\ tileCacheRef' = EmptyMap
              /\ tileCache' = EmptyMap
              /\ visibleTilesRef' = {}
              /\ visibleTiles' = {}
              /\ tilesManifest' = tilesManifest
              /\ inflightLoadsRef' = inflightLoadsRef
              /\ promises' = promises
        /\ (last'.op = "loaded" /\ SettledInStep # {}) =>
              \A p \in SettledInStep :
                  /\ DOMAIN tileCacheRef' = DOMAIN tileCacheRef \cup {p.tileId}
                  /\ tileCacheRef'[p.tileId] \in ServerBodies(promises[p].file)
                  /\ \A t \in DOMAIN tileCacheRef \ {p.tileId} :
                        tileCacheRef'[t] = tileCacheRef[t]
      ]_vars

\* an invocation awaits two loads; the first ended with data, clearCache
\* emptied the cache while the second was in flight, and the second has
\* just ended with data: the cache holds the second tile only
C13_LoadedIntoClearedCache ==
    /\ last.op = "loaded"
    /\ \E k \in 1..Len(inv) : \E a, b \in 1..Len(inv[k].awaited) :
          LET ra == inv[k].awaited[a]
              rb == inv[k].awaited[b]
          IN /\ ra.promise # Null /\ rb.promise # Null
             /\ RetSettled(ra) /\ RetValue(ra) # Null
             /\ RetSettled(rb) /\ RetValue(rb) # Null
             /\ ~MapHas(tileCacheRef, ra.promise[1].tileId)
             /\ DOMAIN tileCacheRef = {rb.promise[1].tileId}
             /\ tileCacheRef[rb.promise[1].tileId] = RetValue(rb)[1]

\* the step is a call of getVisibleParcels
ParcelsStep == last' # last /\ last'.op = "parcels"

\* C14: a call of getVisibleParcels starts no load and leaves the cache, the
\* inflight registry, the visible-tile set, the manifest and the loading flag
\* as they were, also when a visible tile is not in the cache.
C14_GetVisibleParcelsOnlyReads ==
    [][ParcelsStep =>
          UNCHANGED <<tileCacheRef, tileCache, inflightLoadsRef, promises,
                      visibleTilesRef, visibleTiles, tilesManifest, loading, inv>>]_vars

\* getVisibleParcels was called while a visible tile was neither cached nor
\* being loaded
C14_CalledWithTileMissing ==
    /\ last.op = "parcels"
    /\ \E tileId \in visibleTiles :
          ~MapHas(tileCacheRef, tileId) /\ ~MapHas(inflightLoadsRef, tileId)

\* the visible tiles the cache holds
CachedVisible == { tileId \in visibleTiles : MapHas(tileCacheRef, tileId) }

\* the number of features in the cached data of the tiles of a set
RECURSIVE FeatureCount(_)
FeatureCount(tileIds) ==
    IF tileIds = {} THEN 0
    ELSE LET tileId == CHOOSE t \in tileIds : TRUE IN
         Len(tileCacheRef[tileId].features) + FeatureCount(tileIds \ {tileId})

\* the last step was getVisibleParcels() without a viewport
CalledWithoutViewport == last.op = "parcels" /\ last.call[1].viewport = Null

\* C15: getVisibleParcels() returns null when the visible-tile set is empty
\* or none of its tiles is cached, and in general exactly when the cached
\* visible tiles hold no feature.
C15_NullWhenNothingCached ==
    CalledWithoutViewport =>
        /\ (visibleTiles = {} \/ CachedVisible = {}) => last.call[1].result = Null
        /\ last.call[1].result = Null <=> FeatureCount(CachedVisible) = 0

\* getVisibleParcels() returned null for a visible-tile set that is not
\* empty but has no tile in the cache
C15_NullForUncachedVisibleTile ==
    /\ CalledWithoutViewport
    /\ visibleTiles # {}
    /\ CachedVisible = {}
    /\ last.call[1].result = Null

\* how often x occurs in the list s
Occurrences(x, s) == Cardinality({ i \in 1..Len(s) : s[i] = x })

\* how often x occurs in the cached data of the tiles of a set
RECURSIVE OccurrencesInTiles(_, _)
OccurrencesInTiles(x, tileIds) ==
    IF tileIds = {} THEN 0
    ELSE LET tileId == CHOOSE t \in tileIds : TRUE IN
         Occurrences(x, tileCacheRef[tileId].features)
           + OccurrencesInTiles(x, tileIds \ {tileId})

\* every feature some tile file holds
AllServedFeatures ==
    UNION { { body.features[i] : i \in 1..Len(body.features) } :
              body \in UNION { ServerBodies(ServerManifest.tiles[k].file) :
                                 k \in 1..Len(ServerManifest.tiles) } }

\* C16: a collection getVisibleParcels() returns has as many features as the
\* cached visible tiles hold together, and holds every feature as often as
\* these tiles hold it: each cached visible tile gives its features once,
\* and a visible tile that is not cached gives none.
C16_CountIsSumOverCachedTiles ==
    (CalledWithoutViewport /\ last.call[1].result # Null) =>
        LET features == last.call[1].result[1].features IN
        /\ Len(features) = FeatureCount(CachedVisible)
        /\ \A i \in 1..Len(features) : features[i] \in AllServedFeatures
        /\ \A x \in AllServedFeatures :
              Occurrences(x, features) = OccurrencesInTiles(x, CachedVisible)

\* getVisibleParcels() returned the four features of two cached tiles
\* while a third tile is cached but not visible
C16_TwoTilesConcatenated ==
    /\ CalledWithoutViewport
    /\ last.call[1].result # Null
    /\ Cardinality(CachedVisible) = 2
    /\ Len(last.call[1].result[1].features) = 4
    /\ \E tileId \in DOMAIN tileCacheRef : tileId \notin visibleTiles

\* the vertices of a feature: the points of the rings of its polygon(s)
Vertices(feature) ==
    IF "geometry" \notin DOMAIN feature THEN {}
    ELSE LET c == feature.geometry.coordinates IN
         IF feature.geometry.type = "MultiPolygon"
           THEN { c[p][r][i] : <<p, r, i>> \in
                    { t \in (1..Len(c)) \X (1..4) \X (1..8) :
                        t[2] <= Len(c[t[1]]) /\ t[3] <= Len(c[t[1]][t[2]]) } }
           ELSE { c[r][i] : <<r, i>> \in
                    { t \in (1..Len(c)) \X (1..8) : t[2] <= Len(c[t[1]]) } }

\* the feature has a vertex in the closed rectangle
HasVertexInside(feature, box) ==
    \E v \in Vertices(feature) :
        /\ box.minLng <= v[1] /\ v[1] <= box.maxLng
        /\ box.minLat <= v[2] /\ v[2] <= box.maxLat

\* C17: with a viewport, the collection getVisibleParcels returns holds
\* exactly the features of the concatenation that have a vertex in the
\* closed viewport rectangle, unchanged and in the order of the
\* concatenation; a feature without geometry or with all vertices outside is
\* left out.
C17_ViewportFilterKeepsInside ==
    (last.op = "parcels" /\ last.call[1].viewport # Null
       /\ last.call[1].result # Null) =>
        LET box == last.call[1].viewport[1]
            all == AllFeatures(IterationOrder(visibleTiles))
        IN last.call[1].result[1].features
             = SelectSeq(all, LAMBDA feature : HasVertexInside(feature, box))

\* with the three features of tile 0_0 cached and visible, the call with a
\* viewport kept the one parcel that touches the rectangle at a corner
C17_KeptOneOfThree ==
    /\ last.op = "parcels"
    /\ last.call[1].viewport = Some(Box(3, 5, 3, 5))
    /\ Len(AllFeatures(IterationOrder(visibleTiles))) = 3
    /\ last.call[1].result = Some(FeatureCollection(<<Feature(1, 2, 2)>>))

\* C18: every step other than clearCache keeps each tile the cache holds,
\* with the data it holds for it; a fetch that ends with data inserts a tile
\* the cache did not hold, so no load replaces the data of a cached tile.
C18_CacheGrowsMonotonically ==
    [][ /\ ~ClearStep =>
              \A tileId \in DOMAIN tileCacheRef :
                  /\ MapHas(tileCacheRef', tileId)
                  /\ tileCacheRef'[tileId] = tileCacheRef[tileId]
                  /\ MapHas(tileCache', tileId) => tileCache'[tileId] = tileCacheRef[tileId]
        /\ \A p \in SettledInStep :
              MapHas(tileCacheRef', p.tileId) => ~MapHas(tileCacheRef, p.tileId)
      ]_vars

\* the third tile has just been added to a cache that held two
C18_ThirdTileAdded ==
    /\ last.op = "loaded"
    /\ Cardinality(DOMAIN tileCacheRef) = 3
    /\ tileCache = tileCacheRef

\* the fetches that start in the step
StartedInStep ==
    { p \in DOMAIN promises' : p \notin DOMAIN promises /\ promises'[p].state = "pending" }

\* the step is a call of updateVisibleTiles for the viewport of the step
\* before it, which was a call that now waits for its loads, or a call or
\* continuation that ran to the end with no awaited load failed
SameViewportAgain ==
    /\ last.op \in {"update", "resume"}
    /\ last'.op = "update"
    /\ last' # last \/ inv' # inv
    /\ last.call[1].pc \in {"awaiting", "done"}
    /\ ~last.call[1].failed
    /\ last'.call[1].viewport = last.call[1].viewport

\* C19: no step starts a fetch for a tile that is in the cache or has a fetch
\* in flight, on the visible path or the prefetch path; and a call of
\* updateVisibleTiles that follows an invocation for the same viewport, be
\* that one still waiting for its loads or finished without a failed load,
\* starts no fetch at all.
C19_NoFetchForCachedTile ==
    [][ /\ \A p \in StartedInStep :
              /\ ~MapHas(tileCacheRef, p.tileId)
              /\ ~MapHas(inflightLoadsRef, p.tileId)
              /\ Outstanding(p.tileId) = {}
        /\ SameViewportAgain => StartedInStep = {}
      ]_vars

\* the second of two calls for one viewport, made after the loads of the
\* first had ended: all visible tiles are cached, the set is published
\* already, and the neighbour is still being prefetched
C19_SecondCallAllCached ==
    /\ last.op = "update"
    /\ last.call[1].pc = "done"
    /\ ~last.call[1].hasChanges
    /\ Len(last.call[1].visibleTileIds) = 2
    /\ visibleTiles = SeqToSet(last.call[1].visibleTileIds)
    /\ \A tileId \in visibleTiles : MapHas(tileCacheRef, tileId)
    /\ inflightLoadsRef # EmptyMap
    /\ inv = <<>>

\* the promises the invocations that wait after the step are waiting for
AwaitedAfterStep == UNION { RetPromises(inv'[k].awaited) : k \in 1..Len(inv') }

\* the step ends an invocation of updateVisibleTiles (line 156 is reached)
CompletionStep ==
    /\ last' # last \/ inv' # inv
    /\ last'.op \in {"update", "resume"}
    /\ last'.call[1].pc = "done"

\* C20: the invocation ends in the very step in which it starts its prefetch
\* loads, with these still pending and awaited by no one; and when a fetch no
\* invocation awaits ends, with data or with a failure, no continuation runs
\* and the visible-tile set, the loading flag and the error value stay as
\* they were: the cache alone can change, and on failure not even that.
C20_PrefetchNotAwaited ==
    [][ /\ CompletionStep =>
              \A p \in StartedInStep :
                  /\ promises'[p].state = "pending"
                  /\ p \notin AwaitedAfterStep
        /\ \A p \in SettledInStep :
              p \notin UNION { RetPromises(inv[k].awaited) : k \in 1..Len(inv) } =>
                  /\ UNCHANGED <<visibleTiles, visibleTilesRef, loading, error, inv>>
                  /\ \A k \in 1..Len(inv') : ~ReadyToResume(k)'
                  /\ last'.op = "failed" => UNCHANGED <<tileCacheRef, tileCache>>
      ]_vars

\* the fetch of a neighbour has just failed: no invocation waits, the visible
\* tiles are published and cached, and the loading flag is off
C20_PrefetchFailedUnnoticed ==
    /\ last.op = "failed"
    /\ inv = <<>>
    /\ ~loading
    /\ visibleTiles # {}
    /\ \A tileId \in visibleTiles : MapHas(tileCacheRef, tileId)
    /\ \E tileId \in failedTiles : tileId \notin visibleTiles

\* the tiles of the manifest
ManifestTiles ==
    IF tilesManifest = Null THEN {}
    ELSE { tilesManifest[1].tiles[k] : k \in 1..Len(tilesManifest[1].tiles) }

\* the identifiers of the tiles of the manifest that are grid neighbours of a
\* tile with an identifier in tileIds
NeighbourIds(tileIds) ==
    { TileIdOf(t.col, t.row) : t \in
        { n \in ManifestTiles :
            \E v \in ManifestTiles :
                /\ TileIdOf(v.col, v.row) \in tileIds
                /\ n.col - v.col \in {-1, 0, 1}
                /\ n.row - v.row \in {-1, 0, 1}
                /\ <<n.col, n.row>> # <<v.col, v.row>> } }

\* C21: when an invocation reaches its prefetch, it asks for exactly the
\* neighbours of its visible tiles that the cache lacks at that moment: each
\* of them then has a load in flight, and no fetch starts for any other tile;
\* that step comes after all awaited loads have resolved, and the step in
\* which the invocation begins to wait starts fetches for its visible tiles
\* only.
C21_PrefetchNeighboursAfterAwait ==
    [][ /\ CompletionStep =>
              LET wanted == NeighbourIds(SeqToSet(last'.call[1].visibleTileIds))
                              \ DOMAIN tileCacheRef
              IN /\ last'.call[1].unsettled = 0
                 /\ \A tileId \in wanted : MapHas(inflightLoadsRef', tileId)
                 /\ { p.tileId : p \in StartedInStep } \subseteq wanted
                 /\ DOMAIN inflightLoadsRef' = DOMAIN inflightLoadsRef \cup wanted
        /\ (last'.op = "update" /\ last'.call[1].pc = "awaiting") =>
              { p.tileId : p \in StartedInStep }
                  \subseteq SeqToSet(last'.call[1].visibleTileIds) \ DOMAIN tileCacheRef
      ]_vars

\* an invocation for tiles 1_0 and 1_1 has ended after the load of 1_0
\* failed: the prefetch asked for neighbour 0_0 and again for 1_0, the
\* neighbour of 1_1 that the cache lacks
C21_PrefetchIncludesFailedNeighbour ==
    /\ last.op = "resume"
    /\ last.call[1].pc = "done"
    /\ last.call[1].failed
    /\ Len(last.call[1].visibleTileIds) = 2
    /\ DOMAIN inflightLoadsRef = {TileIdOf(0, 0), TileIdOf(1, 0)}
    /\ DOMAIN tileCacheRef = {TileIdOf(1, 1)}

\* C22: the last write to the visible-tile set wins, whatever the order of
\* the calls: every invocation that found a change writes its own tiles when
\* it completes, also when an invocation called after it has written the set
\* in the meantime, so the set after the step is that invocation's.
C22_LastWriteWins ==
    [][ PublishStep =>
            /\ visibleTilesRef' = SeqToSet(last'.call[1].visibleTileIds)
            /\ visibleTiles' = SeqToSet(last'.call[1].visibleTileIds) ]_vars

\* an invocation has completed after one called later had waited, continued
\* and written other tiles to the set: no invocation is left, and the set is
\* that of the earlier viewport
C22_EarlierInvocationClobbers ==
    /\ last.op = "resume"
    /\ last.call[1].pc = "done"
    /\ last.call[1].hasChanges
    /\ last.call[1].overtaken
    /\ inv = <<>>
    /\ visibleTilesRef = SeqToSet(last.call[1].visibleTileIds)
    /\ visibleTiles = SeqToSet(last.call[1].visibleTileIds)

\* C23: no fetch is cancelled. A pending fetch stays pending, with its file,
\* through every step but the one in which it ends itself: no call of
\* updateVisibleTiles, no continuation and no clearCache takes it away, and
\* at most one fetch ends in a step. When it ends with data, the tile is in
\* the cache afterwards with the data the server sent, whether or not the
\* tile is in the visible-tile set or wanted by a waiting invocation.
C23_NoCancellation ==
    [][ /\ \A p \in DOMAIN promises :
              IsPending(p) =>
                  \/ p \in DOMAIN promises' /\ promises'[p] = promises[p]
                  \/ /\ last'.op \in {"loaded", "failed"}
                     /\ SettledInStep = {p}
        /\ last'.op = "loaded" =>
              \A p \in SettledInStep :
                  /\ MapHas(tileCacheRef', p.tileId)
                  /\ MapHas(tileCache', p.tileId)
                  /\ tileCacheRef'[p.tileId] \in ServerBodies(promises[p].file)
      ]_vars

\* a fetch has just ended with data while the viewport lies outside the
\* dataset: the visible-tile set is empty, no invocation waits, and the tile
\* is in the cache all the same
C23_CachedThoughOutOfView ==
    /\ last.op = "loaded"
    /\ tilesManifest # Null
    /\ inv = <<>>
    /\ visibleTilesRef = {}
    /\ visibleTiles = {}
    /\ DOMAIN tileCacheRef # {}

\* C24: the error value changes in one step only, the one in which the
\* pending manifest fetch ends without a manifest: no end of a tile fetch, no
\* call of loadTile (for a known or an unknown tile) and no clearCache
\* changes it. It is therefore null in every state in which the manifest
\* fetch has not failed.
C24_ErrorOnlyFromManifest ==
    [][ /\ error' # error =>
              /\ manifestFetch = "pending"
              /\ manifestFetch' = "done"
              /\ tilesManifest' = Null
              /\ last' = last
        /\ error' # Null => (manifestFetch' = "done" /\ tilesManifest' = Null)
      ]_vars

\* with the manifest loaded, loadTile has returned null for a tile the
\* manifest lacks, the fetch of another tile has failed, clearCache has run
\* after a call had returned, and the error value is null
C24_NullErrorAfterTileFailures ==
    /\ tilesManifest # Null
    /\ error = Null
    /\ failedTiles # {}
    /\ \E c \in 1..Len(direct) :
          /\ ~direct[c].known
          /\ RetSettled(direct[c].ret)
          /\ RetValue(direct[c].ret) = Null
    /\ \E c \in 1..Len(direct) : direct[c].cleared

\* the text "{col}_{row}" of a cell whose column and row have one digit
IdText(col, row) ==
    LET digits == <<"0", "1", "2", "3", "4", "5", "6", "7", "8", "9">>
    IN <<digits[col + 1], "_", digits[row + 1]>>

\* the positions in the manifest of the tiles a viewport is not entirely to
\* the left or right of, nor entirely above or below
Hits(viewport) ==
    { k \in 1..Len(tilesManifest[1].tiles) :
        LET b == tilesManifest[1].tiles[k].bounds
        IN ~ ( \/ viewport.maxLng < b.minLng
               \/ viewport.minLng > b.maxLng
               \/ viewport.maxLat < b.minLat
               \/ viewport.minLat > b.maxLat ) }

\* C25: getTilesForViewport returns the identifiers "{col}_{row}" of exactly
\* the manifest tiles that pass the closed intersection test, one entry per
\* tile and in the order of the manifest, and the empty sequence when no
\* manifest is stored.
C25_TilesForViewportExact ==
    last.op = "tiles" =>
        LET viewport == last.call[1].viewport
            result == last.call[1].result
        IN IF tilesManifest = Null THEN result = <<>>
           ELSE LET tiles == tilesManifest[1].tiles
                    hit == Hits(viewport)
                IN /\ Len(result) = Cardinality(hit)
                   /\ \A i \in 1..Len(result) :
                         \E k \in hit :
                             /\ Cardinality({ j \in hit : j < k }) = i - 1
                             /\ result[i] = IdText(tiles[k].col, tiles[k].row)

\* on the manifest with tiles 0_0, 1_0 and 1_1, a viewport inside tile 0_0
\* whose east side lies on the line between 0_0 and 1_0 gives both, in
\* manifest order, and not 1_1
C25_TouchingTileIncluded ==
    /\ last.op = "tiles"
    /\ tilesManifest = Some(ServerManifest)
    /\ last.call[1].viewport = Box(5, 10, 0, 5)
    /\ last.call[1].result = << <<"0", "_", "0">>, <<"1", "_", "0">> >>

\* the viewport lies wholly outside the box: strictly to one side of it
StrictlyOutside(viewport, box) ==
    \/ viewport.maxLng < box.minLng
    \/ viewport.minLng > box.maxLng
    \/ viewport.maxLat < box.minLat
    \/ viewport.minLat > box.maxLat

\* the box of every tile of the manifest lies within the dataset bounds
TilesWithinBounds ==
    \A k \in 1..Len(tilesManifest[1].tiles) :
        LET b == tilesManifest[1].tiles[k].bounds
            d == tilesManifest[1].bounds
        IN /\ d.minLng <= b.minLng /\ b.maxLng <= d.maxLng
           /\ d.minLat <= b.minLat /\ b.maxLat <= d.maxLat

\* C26: for a viewport wholly outside the dataset bounds of the manifest,
\* whose tiles all lie within those bounds, getTilesForViewport returns the
\* empty sequence.
C26_OutsideDatasetEmpty ==
    ( /\ last.op = "tiles"
      /\ tilesManifest # Null
      /\ TilesWithinBounds
      /\ StrictlyOutside(last.call[1].viewport, tilesManifest[1].bounds) )
        => last.call[1].result = <<>>

\* on the full 2 by 2 grid, a viewport east of the data at the latitudes of
\* the first row gives no tile
C26_EastOfDataset ==
    /\ last.op = "tiles"
    /\ tilesManifest = Some(GridManifest(2, 2, (0..1) \X (0..1)))
    /\ last.call[1].viewport = Box(30, 30, 0, 10)
    /\ last.call[1].result = <<>>

\* C27: for a viewport equal to the box of a manifest tile, the result of
\* getTilesForViewport holds that tile's identifier exactly once.
C27_OwnTileExactlyOnce ==
    ( last.op = "tiles" /\ tilesManifest # Null ) =>
        \A k \in 1..Len(tilesManifest[1].tiles) :
            LET tile == tilesManifest[1].tiles[k]
                result == last.call[1].result
            IN last.call[1].viewport = tile.bounds =>
                  Cardinality({ i \in 1..Len(result) :
                                   result[i] = IdText(tile.col, tile.row) }) = 1

\* on the full 3 by 3 grid, the box of the centre tile as viewport gives all
\* nine tiles, each touching it, and 1_1 once
C27_CentreTileBox ==
    /\ last.op = "tiles"
    /\ tilesManifest = Some(GridManifest(3, 3, (0..2) \X (0..2)))
    /\ last.call[1].viewport = Box(10, 20, 10, 20)
    /\ Len(last.call[1].result) = 9
    /\ Cardinality({ i \in 1..9 : last.call[1].result[i] = <<"1", "_", "1">> }) = 1

\* C28: getSurroundingTiles(col, row) returns, without duplicates, the
\* identifiers of exactly the manifest tiles at most one column and one row
\* away from (col, row), the cell itself left out: at most 8 entries.
C28_SurroundingTilesExact ==
    ( /\ last.op = "surrounding"
      /\ last.call[1].col # NaN
      /\ last.call[1].row # NaN ) =>
        LET col == last.call[1].col[1]
            row == last.call[1].row[1]
            result == last.call[1].result
            expected == { IdText(t.col, t.row) : t \in
                            { n \in ManifestTiles :
                                /\ n.col - col \in {-1, 0, 1}
                                /\ n.row - row \in {-1, 0, 1}
                                /\ <<n.col, n.row>> # <<col, row>> } }
        IN /\ SeqToSet(result) = expected
           /\ Len(result) = Cardinality(expected)
           /\ Len(result) <= 8

\* with only 0_0 and 1_1 in the manifest, getSurroundingTiles(0, 0) gives
\* the diagonal neighbour 1_1 alone
C28_DiagonalNeighbourOnly ==
    /\ last.op = "surrounding"
    /\ tilesManifest = Some(GridManifest(2, 2, { <<0, 0>>, <<1, 1>> }))
    /\ last.call[1].col = Some(0)
    /\ last.call[1].row = Some(0)
    /\ last.call[1].result = << <<"1", "_", "1">> >>

\* C29 as stated: the loading flag is on in every state in which an
\* invocation of updateVisibleTiles still waits for a visible-tile load that
\* has not resolved.
C29_LoadingWhileWaiting ==
    ( \E k \in 1..Len(inv) :
         \E a \in 1..Len(inv[k].awaited) : ~RetSettled(inv[k].awaited[a]) )
        => loading

\* C30: when no call of updateVisibleTiles and no clearCache falls between
\* the call of an invocation and its end, the visible-tile set at its end,
\* ref and state, is the set of the identifiers getTilesForViewport gives
\* for its viewport, whether its loads succeeded or failed, and whether it
\* found a change, found none, or returned at once for want of a manifest.
C30_SoloInvocationPublishesItsTiles ==
    [][ ( /\ last' # last \/ inv' # inv
          /\ last'.op \in {"update", "resume"}
          /\ last'.call[1].pc \in {"done", "noop"} ) =>
            /\ visibleTilesRef' = SeqToSet(GetTilesForViewport(last'.call[1].viewport))
            /\ visibleTiles' = SeqToSet(GetTilesForViewport(last'.call[1].viewport))
      ]_vars

\* an invocation for tiles 1_0 and 1_1 has ended after the load of 1_0
\* failed: both tiles are in the visible-tile set, 1_0 without data
C30_PublishedDespiteFailure ==
    /\ last.op = "resume"
    /\ last.call[1].pc = "done"
    /\ last.call[1].failed
    /\ visibleTiles = { TileIdOf(1, 0), TileIdOf(1, 1) }
    /\ visibleTilesRef = visibleTiles
    /\ ~MapHas(tileCacheRef, TileIdOf(1, 0))

\* C31 as stated: an invocation whose tiles differ from the visible-tile set
\* held when its awaited loads have resolved and it continues, writes its
\* tiles to the set.
C31_PublishDecidedAtPublishTime ==
    [][ ( /\ inv' # inv
          /\ last'.op = "resume"
          /\ last'.call[1].pc = "done"
          /\ SeqToSet(last'.call[1].visibleTileIds) # visibleTilesRef ) =>
            visibleTilesRef' = SeqToSet(last'.call[1].visibleTileIds) ]_vars

\* clearCache ran while invocation k waited: one of the loads it awaits has
\* ended with data and the cache, which only clearCache empties, lacks the
\* tile
ClearedWhileWaiting(k) ==
    \E p \in RetPromises(inv[k].awaited) :
        /\ ~IsPending(p)
        /\ promises[p].value # Null
        /\ ~MapHas(tileCacheRef, p.tileId)

\* C32 as stated: an invocation that was waiting when clearCache ran does not
\* fill the visible-tile set again: when it continues with the set empty, the
\* set is empty afterwards.
C32_ClearedSetStaysEmpty ==
    [][ \A k \in 1..Len(inv) :
          ( /\ ReadyToResume(k)
            /\ \A j \in 1..(k - 1) : ~ReadyToResume(j)
            /\ ClearedWhileWaiting(k)
            /\ visibleTilesRef = {}
            /\ inv' # inv
            /\ last'.op = "resume" ) =>
              (visibleTilesRef' = {} /\ visibleTiles' = {}) ]_vars

\* C33: in every reachable state no tile is both in the cache and in the
\* registry of loads in flight.
C33_CachedOrInflightNotBoth ==
    DOMAIN tileCacheRef \cap DOMAIN inflightLoadsRef = {}

\* a tile has just been loaded into a cache that clearCache emptied while an
\* invocation waited, and another load is still in flight
C33_LoadedAfterClearWhileInflight ==
    /\ last.op = "loaded"
    /\ tileCacheRef # EmptyMap
    /\ inflightLoadsRef # EmptyMap
    /\ \E k \in 1..Len(inv) : ClearedWhileWaiting(k)

\* C34: in a session without clearCache a tile is fetched successfully at
\* most once. A fetch starts only for a tile that is not in the cache and has
\* no fetch on the network, so every fetch of a tile that ended before it
\* failed; a fetch that ends with data puts into the cache a tile that was
\* not there; and no tile leaves the cache, so no fetch starts after a
\* successful one.
C34_OneSuccessfulFetchPerTile ==
    [][ /\ \A p \in StartedInStep :
              /\ ~MapHas(tileCacheRef, p.tileId)
              /\ Outstanding(p.tileId) = {}
        /\ last'.op = "loaded" =>
              \A p \in SettledInStep :
                  /\ ~MapHas(tileCacheRef, p.tileId)
                  /\ MapHas(tileCacheRef', p.tileId)
        /\ DOMAIN tileCacheRef \subseteq DOMAIN tileCacheRef'
      ]_vars

\* a second fetch of a tile is on the network after its first one failed,
\* while another tile is in the cache
C34_RefetchAfterFailure ==
    /\ \E p \in DOMAIN promises : IsPending(p) /\ p.tileId \in failedTiles
    /\ tileCacheRef # EmptyMap

\* the step is a call of updateVisibleTiles
ArrivalStep == last'.op = "update" /\ (last' # last \/ inv' # inv)

\* the step runs the continuation of the invocation that waits longest
OldestCompletes == last'.op = "resume" /\ inv # <<>> /\ inv' = Tail(inv)

\* nothing is loading and no invocation waits
Quiescent == inflightLoadsRef = EmptyMap /\ ~loading /\ inv = <<>>

\* C35: on a network that answers every request, (1) the invocation of
\* updateVisibleTiles that waits longest always completes in the end, so no
\* invocation waits for ever, and (2) once no call of updateVisibleTiles
\* arrives any more, the registry of loads in flight becomes empty, the
\* loading flag becomes false and no invocation waits, and that stays so.
C35_InvocationsCompleteAndQuiesce ==
    /\ []<>(inv = <<>>) \/ []<><<OldestCompletes>>_vars
    /\ <>[][~ArrivalStep]_vars => <>[]Quiescent

\* all is quiet after updateVisibleTiles waited for a load that failed and a
\* load that succeeded: the last fetch ended and left nothing in flight
C35_QuietAfterFailureAndSuccess ==
    /\ Quiescent
    /\ last.op \in {"loaded", "failed", "resume"}
    /\ failedTiles # {}
    /\ tileCacheRef # EmptyMap
    /\ visibleTilesRef # {}

\* the features the cached tiles of a set hold
FeaturesOfTiles(tileIds) ==
    UNION { { tileCacheRef[tileId].features[i] :
                i \in 1..Len(tileCacheRef[tileId].features) } : tileId \in tileIds }

\* C36: getVisibleParcels, with or without a viewport, returns null exactly
\* when the cached visible tiles hold no feature; when they hold features
\* and none of them has a vertex in the viewport supplied, it returns a
\* collection without features, not null.
C36_NullDecidedBeforeFilter ==
    last.op = "parcels" =>
        /\ last.call[1].result = Null <=> FeatureCount(CachedVisible) = 0
        /\ ( /\ last.call[1].viewport # Null
             /\ FeatureCount(CachedVisible) > 0
             /\ \A feature \in FeaturesOfTiles(CachedVisible) :
                   ~HasVertexInside(feature, last.call[1].viewport[1]) )
              => last.call[1].result = Some(FeatureCollection(<<>>))

\* getVisibleParcels was called with a viewport that none of the features of
\* the cached visible tiles reaches, and returned an empty collection
C36_EmptyCollectionNotNull ==
    /\ last.op = "parcels"
    /\ last.call[1].viewport # Null
    /\ FeatureCount(CachedVisible) > 0
    /\ last.call[1].result = Some(FeatureCollection(<<>>))

\* the closed rectangles have a point in common
Overlap(a, b) ==
    /\ a.minLng <= b.maxLng /\ b.minLng <= a.maxLng
    /\ a.minLat <= b.maxLat /\ b.minLat <= a.maxLat

\* the rectangles have points in common, but only on a side or at a corner
SharesOnlyBoundary(a, b) ==
    /\ Overlap(a, b)
    /\ \/ a.maxLng = b.minLng \/ a.minLng = b.maxLng
       \/ a.maxLat = b.minLat \/ a.minLat = b.maxLat

\* C37: getTilesForViewport returns every manifest tile whose box shares only
\* a side or a corner with the viewport, and for a viewport equal to the box
\* of a manifest tile of a contiguous grid it returns exactly that tile and
\* the manifest tiles next to it, across a side or a corner.
C37_ClosedOnBoundary ==
    ( last.op = "tiles" /\ tilesManifest # Null ) =>
        LET viewport == last.call[1].viewport
            result == SeqToSet(last.call[1].result)
        IN /\ \A t \in ManifestTiles :
                 SharesOnlyBoundary(viewport, t.bounds) => IdText(t.col, t.row) \in result
           /\ \A t \in ManifestTiles :
                 viewport = t.bounds =>
                    result = { IdText(n.col, n.row) : n \in
                                 { m \in ManifestTiles :
                                     /\ m.col - t.col \in {-1, 0, 1}
                                     /\ m.row - t.row \in {-1, 0, 1} } }

\* on the 3 by 3 grid without 1_1 and 2_0, the box of tile 2_1 as viewport
\* gives 2_1, its neighbour 2_2 across a side and the two tiles 1_0 and 1_2
\* that touch it at a corner only
C37_CornerNeighboursReturned ==
    /\ last.op = "tiles"
    /\ tilesManifest = Some(GridManifest(3, 3, ((0..2) \X (0..2)) \ { <<1, 1>>, <<2, 0>> }))
    /\ last.call[1].viewport = Box(20, 30, 10, 20)
    /\ last.call[1].result = << <<"1", "_", "0">>, <<"2", "_", "1">>,
                                <<"1", "_", "2">>, <<"2", "_", "2">> >>

C39_AtMostTenErrors ==
    /\ [](Len(errors) <= 10)
    /\ [][ /\ (last'.op = "addError" /\ last'.call[1].error # Null) =>
                /\ errors'[1].message = last'.call[1].error[1].message
                /\ errors'[1].status = last'.call[1].error[1].status
                /\ Len(errors') = IF Len(errors) < 10 THEN Len(errors) + 1 ELSE 10
                /\ \A i \in 2..Len(errors') : errors'[i] = errors[i - 1]
           /\ last'.op = "clearErrors" => errors' = <<>>
         ]_vars

\* addError was called on a list of 10 entries: the new entry is first, the
\* list holds 10 entries and both kinds of entry
C39_FullListTrimmed ==
    /\ last.op = "addError"
    /\ last.call[1].error # Null
    /\ last.call[1].before = 10
    /\ Len(errors) = 10
    /\ errors[1].message = last.call[1].error[1].message
    /\ errors[1] # errors[10]
====
